---- MODULE Spec2Model ----
(***************************************************************************)
(* A model of the 3x3 cube engine (cube.py), the layer-by-layer solver     *)
(* (solver.py) and the solve handler that drives them (app.py).            *)
(*                                                                         *)
(* A Python str is a sequence of one-character strings.  A face is a 3x3   *)
(* grid indexed from 0 as in the source: cube[face][row][col].             *)
(***************************************************************************)
EXTENDS Integers, Sequences, FiniteSets, TLC

VARIABLES
  cube,      \* the caller's RubiksCube (its faces dictionary)
  prev,      \* the caller's cube before the last engine call
  last,      \* the argument of the last engine call (a str)
  op,        \* the method of the last engine call
  outcome,   \* how the last engine call ended: returned, or raised ValueError(msg)
  ncalls,    \* engine calls made so far
  pc,        \* where the solve handler is: request, solve, a phase, verify, done
  scramble,  \* the request's scramble (a str)
  algorithm, \* the request's algorithm
  work,      \* CubeSolver.solve's working_cube
  attempt,   \* the running phase's attempt counter
  inner,     \* the white-cross phase's position in its loop over the four faces
  solution_moves, \* the tokens applied to the working cube so far
  solution,  \* the str CubeSolver.solve returned
  response,  \* the handler's response
  external,  \* what kociemba.solve did on each call made for the request
  pending,   \* the tokens the running apply loop of the solving caller has still to apply
  scramble_moves, \* generate_scramble's list of the moves drawn so far
  last_face, \* generate_scramble's face of the move drawn last
  heap,      \* the numpy array buffers allocated so far
  objs,      \* the RubiksCube objects made so far: per face, a buffer and a view of it
  acted      \* the object the last call was made on

engineVars == <<cube, prev, last, op, outcome, ncalls>>

handlerVars ==
  <<pc, scramble, algorithm, work, attempt, inner, solution_moves, solution, response, external,
    pending, scramble_moves, last_face>>

memVars == <<heap, objs, acted>>

vars == <<cube, prev, last, op, outcome, ncalls,
          pc, scramble, algorithm, work, attempt, inner, solution_moves, solution, response,
          external, pending, scramble_moves, last_face, heap, objs, acted>>

----------------------------------------------------------------------------
(* Bounds of the model.                                                    *)

MaxMoves == 2

MaxText == 5

MaxScramble == 2

MaxDraws == 2

----------------------------------------------------------------------------
(* cube.py: the state.                                                     *)

FACES == <<"U", "D", "F", "B", "L", "R">>

FaceNames == {FACES[i] : i \in 1..Len(FACES)}

Idx == 0..2

\* cube.FACES.index(face), and the i of enumerate(self.FACES)
FaceIndex(face) == (CHOOSE i \in 1..Len(FACES) : FACES[i] = face) - 1

\* np.full((3, 3), i)
Full(i) == [r \in Idx |-> [c \in Idx |-> i]]

\* RubiksCube.__init__
NewCube == [face \in FaceNames |-> Full(FaceIndex(face))]

\* np.all(grid == i)
AllEqual(grid, i) == \A r \in Idx : \A c \in Idx : grid[r][c] = i

\* is_solved that looks at the first face only
is_solved_FirstFace(cb) == AllEqual(cb[FACES[1]], 0)

\* RubiksCube.is_solved: the first face with a foreign cell returns False
is_solved(cb) == ~ \E i \in 1..Len(FACES) : ~ AllEqual(cb[FACES[i]], i - 1)

\* RubiksCube.copy
copy(cb) == [face \in FaceNames |-> [r \in Idx |-> [c \in Idx |-> cb[face][r][c]]]]

----------------------------------------------------------------------------
(* cube.py: the twelve quarter turns.  Each assignment of the source is    *)
(* one EXCEPT, in the source's order, so that a read sees the writes made  *)
(* before it; a loop over range(3) is its body at i = 0, 1, 2.             *)

\* np.rot90(grid, -1)
\* a quarter turn that mirrors the grid in its diagonal
Rot90CW_Mirror(grid) == [r \in Idx |-> [c \in Idx |-> grid[c][r]]]

Rot90CW(grid) == [r \in Idx |-> [c \in Idx |-> grid[2 - c][r]]]

\* the transpose taken for the quarter turn
Rot90CCW_Transpose(grid) == [r \in Idx |-> [c \in Idx |-> grid[c][r]]]

\* np.rot90(grid, 1)
Rot90CCW(grid) == [r \in Idx |-> [c \in Idx |-> grid[c][2 - r]]]

rotate_face_clockwise(cb, face) == [cb EXCEPT ![face] = Rot90CW(cb[face])]

rotate_face_counterclockwise(cb, face) == [cb EXCEPT ![face] = Rot90CCW(cb[face])]

\* the column [grid[i][col] for i in range(3)]
Column(grid, col) == [i \in Idx |-> grid[i][col]]

\* the reversed column [grid[2-i][col] for i in range(3)]
ColumnRev(grid, col) == [i \in Idx |-> grid[2 - i][col]]

\* the reversed row [grid[row][2-i] for i in range(3)]
RowRev(grid, row) == [i \in Idx |-> grid[row][2 - i]]

\* grid[:, col] = values
SetColumn(grid, col, values) == [r \in Idx |-> [grid[r] EXCEPT ![col] = values[r]]]

\* CycleRows without the temporary: the last row is read back from F
CycleRows_NoTemp(cb, row, a, b) ==
  LET c1 == [cb EXCEPT !["F"][row] = cb[a][row]]
      c2 == [c1 EXCEPT ![a][row] = c1["B"][row]]
      c3 == [c2 EXCEPT !["B"][row] = c2[b][row]]
  IN  [c3 EXCEPT ![b][row] = c3["F"][row]]

\* the four row assignments shared by move_U, move_U_prime, move_D, move_D_prime:
\* temp = F[row]; F[row] = a[row]; a[row] = B[row]; B[row] = b[row]; b[row] = temp
CycleRows(cb, row, a, b) ==
  LET temp == cb["F"][row]
      c1 == [cb EXCEPT !["F"][row] = cb[a][row]]
      c2 == [c1 EXCEPT ![a][row] = c1["B"][row]]
      c3 == [c2 EXCEPT !["B"][row] = c2[b][row]]
  IN  [c3 EXCEPT ![b][row] = temp]

\* move_U with the rows cycled the other way round
move_U_OtherWay(cb) == CycleRows(rotate_face_clockwise(cb, "U"), 0, "L", "R")

move_U(cb) == CycleRows(rotate_face_clockwise(cb, "U"), 0, "R", "L")

move_U_prime(cb) == CycleRows(rotate_face_counterclockwise(cb, "U"), 0, "L", "R")

\* move_D cycling the middle rows
move_D_MiddleRow(cb) == CycleRows(rotate_face_clockwise(cb, "D"), 1, "L", "R")

move_D(cb) == CycleRows(rotate_face_clockwise(cb, "D"), 2, "L", "R")

move_D_prime(cb) == CycleRows(rotate_face_counterclockwise(cb, "D"), 2, "R", "L")

\* the body of move_R without the temporary: B is read back from U
R_body_NoTemp(cb, temp, i) ==
  LET c1 == [cb EXCEPT !["U"][i][2] = cb["F"][i][2]]
      c2 == [c1 EXCEPT !["F"][i][2] = c1["D"][i][2]]
      c3 == [c2 EXCEPT !["D"][i][2] = c2["B"][2 - i][0]]
  IN  [c3 EXCEPT !["B"][2 - i][0] = c3["U"][i][2]]

R_body(cb, temp, i) ==
  LET c1 == [cb EXCEPT !["U"][i][2] = cb["F"][i][2]]
      c2 == [c1 EXCEPT !["F"][i][2] = c1["D"][i][2]]
      c3 == [c2 EXCEPT !["D"][i][2] = c2["B"][2 - i][0]]
  IN  [c3 EXCEPT !["B"][2 - i][0] = temp[i]]

move_R(cb) ==
  LET c0 == rotate_face_clockwise(cb, "R")
      temp == Column(c0["U"], 2)
  IN  R_body(R_body(R_body(c0, temp, 0), temp, 1), temp, 2)

R_prime_body(cb, temp, i) ==
  LET c1 == [cb EXCEPT !["U"][i][2] = cb["B"][2 - i][0]]
      c2 == [c1 EXCEPT !["B"][2 - i][0] = c1["D"][i][2]]
      c3 == [c2 EXCEPT !["D"][i][2] = c2["F"][i][2]]
  IN  [c3 EXCEPT !["F"][i][2] = temp[i]]

move_R_prime(cb) ==
  LET c0 == rotate_face_counterclockwise(cb, "R")
      temp == Column(c0["U"], 2)
  IN  R_prime_body(R_prime_body(R_prime_body(c0, temp, 0), temp, 1), temp, 2)

\* the body of move_L with the columns cycled the other way round
L_body_OtherWay(cb, temp, i) ==
  LET c1 == [cb EXCEPT !["U"][i][0] = cb["F"][i][0]]
      c2 == [c1 EXCEPT !["F"][i][0] = c1["D"][i][0]]
      c3 == [c2 EXCEPT !["D"][i][0] = c2["B"][2 - i][2]]
  IN  [c3 EXCEPT !["B"][2 - i][2] = temp[i]]

L_body(cb, temp, i) ==
  LET c1 == [cb EXCEPT !["U"][i][0] = cb["B"][2 - i][2]]
      c2 == [c1 EXCEPT !["B"][2 - i][2] = c1["D"][i][0]]
      c3 == [c2 EXCEPT !["D"][i][0] = c2["F"][i][0]]
  IN  [c3 EXCEPT !["F"][i][0] = temp[i]]

move_L(cb) ==
  LET c0 == rotate_face_clockwise(cb, "L")
      temp == Column(c0["U"], 0)
  IN  L_body(L_body(L_body(c0, temp, 0), temp, 1), temp, 2)

L_prime_body(cb, temp, i) ==
  LET c1 == [cb EXCEPT !["U"][i][0] = cb["F"][i][0]]
      c2 == [c1 EXCEPT !["F"][i][0] = c1["D"][i][0]]
      c3 == [c2 EXCEPT !["D"][i][0] = c2["B"][2 - i][2]]
  IN  [c3 EXCEPT !["B"][2 - i][2] = temp[i]]

move_L_prime(cb) ==
  LET c0 == rotate_face_counterclockwise(cb, "L")
      temp == Column(c0["U"], 0)
  IN  L_prime_body(L_prime_body(L_prime_body(c0, temp, 0), temp, 1), temp, 2)

\* the strip assignments shared by move_F (row 2/0, columns 2/0) and
\* move_B_prime (row 0/2, columns 0/2):
\* temp = U[ur]; U[ur] = reversed column lc of L; L[i][lc] = D[dr][i];
\* D[dr] = reversed column rc of R; R[i][rc] = temp[i]
TurnFromLeft(cb, ur, dr, lc, rc) ==
  LET temp == cb["U"][ur]
      c1 == [cb EXCEPT !["U"][ur] = ColumnRev(cb["L"], lc)]
      c2 == [c1 EXCEPT !["L"] = SetColumn(c1["L"], lc, c1["D"][dr])]
      c3 == [c2 EXCEPT !["D"][dr] = ColumnRev(c2["R"], rc)]
  IN  [c3 EXCEPT !["R"] = SetColumn(c3["R"], rc, temp)]

\* the strip assignments shared by move_F_prime and move_B:
\* temp = U[ur]; U[ur][i] = R[i][rc]; R[:, rc] = reversed D[dr];
\* D[dr] = column lc of L; L[2-i][lc] = temp[i]
TurnFromRight(cb, ur, dr, lc, rc) ==
  LET temp == cb["U"][ur]
      c1 == [cb EXCEPT !["U"][ur] = Column(cb["R"], rc)]
      c2 == [c1 EXCEPT !["R"] = SetColumn(c1["R"], rc, RowRev(c1["D"], dr))]
      c3 == [c2 EXCEPT !["D"][dr] = Column(c2["L"], lc)]
  IN  [c3 EXCEPT !["L"] = SetColumn(c3["L"], lc, [i \in Idx |-> temp[2 - i]])]

\* a front turn that moves the four strips and leaves the face as it is
move_F_StripsOnly(cb) == TurnFromLeft(cb, 2, 0, 2, 0)

move_F(cb) == TurnFromLeft(rotate_face_clockwise(cb, "F"), 2, 0, 2, 0)

\* move_F_prime with the strips cycled as move_F cycles them
move_F_prime_SameWay(cb) == TurnFromLeft(rotate_face_counterclockwise(cb, "F"), 2, 0, 2, 0)

move_F_prime(cb) == TurnFromRight(rotate_face_counterclockwise(cb, "F"), 2, 0, 2, 0)

\* move_B with the strips cycled as move_B_prime cycles them
move_B_OtherWay(cb) == TurnFromLeft(rotate_face_clockwise(cb, "B"), 0, 2, 0, 2)

move_B(cb) == TurnFromRight(rotate_face_clockwise(cb, "B"), 0, 2, 0, 2)

move_B_prime(cb) == TurnFromLeft(rotate_face_counterclockwise(cb, "B"), 0, 2, 0, 2)

----------------------------------------------------------------------------
(* Python str operations, on sequences of characters.                      *)

Whitespace == {" ", "\t", "\n"}

\* str.strip()
Strip(s) ==
  IF \A i \in 1..Len(s) : s[i] \in Whitespace THEN <<>>
  ELSE LET first == CHOOSE i \in 1..Len(s) :
                      s[i] \notin Whitespace /\ \A j \in 1..(i - 1) : s[j] \in Whitespace
           final == CHOOSE i \in 1..Len(s) :
                      s[i] \notin Whitespace /\ \A j \in (i + 1)..Len(s) : s[j] \in Whitespace
       IN  SubSeq(s, first, final)

\* the word of s that starts at position i: the longest run without whitespace
WordAt(s, i) ==
  LET stop == CHOOSE j \in i..Len(s) :
                /\ \A k \in i..j : s[k] \notin Whitespace
                /\ (j = Len(s) \/ s[j + 1] \in Whitespace)
  IN  SubSeq(s, i, stop)

\* the words of s that start in lo..hi, in order (halving keeps the evaluation shallow)
RECURSIVE SplitRange(_, _, _)
SplitRange(s, lo, hi) ==
  IF lo > hi THEN <<>>
  ELSE IF lo = hi
    THEN IF s[lo] \notin Whitespace /\ (lo = 1 \/ s[lo - 1] \in Whitespace)
           THEN <<WordAt(s, lo)>> ELSE <<>>
    ELSE LET mid == (lo + hi) \div 2
         IN  SplitRange(s, lo, mid) \o SplitRange(s, mid + 1, hi)

\* str.split()
Split(s) == SplitRange(s, 1, Len(s))

\* " ".join(words[lo..hi])
RECURSIVE JoinRange(_, _, _)
JoinRange(words, lo, hi) ==
  IF lo > hi THEN <<>>
  ELSE IF lo = hi THEN words[lo]
    ELSE LET mid == (lo + hi) \div 2
         IN  JoinRange(words, lo, mid) \o <<" ">> \o JoinRange(words, mid + 1, hi)

\* " ".join(words)
Join(words) == JoinRange(words, 1, Len(words))

----------------------------------------------------------------------------
(* cube.py: apply_move and apply_moves.  A call ends with the cube it      *)
(* leaves and, if it raised, the ValueError's message.                     *)

Returned(cb) == [cube |-> cb, raised |-> FALSE, msg |-> <<>>]

\* the error raised without the token in its message
InvalidMove_NoToken(cb, move) ==
  [cube |-> cb, raised |-> TRUE,
   msg |-> <<"I", "n", "v", "a", "l", "i", "d", " ", "m", "o", "v", "e">>]

\* raise ValueError(f"Invalid move: {move}")
InvalidMove(cb, move) ==
  [cube |-> cb, raised |-> TRUE,
   msg |-> <<"I", "n", "v", "a", "l", "i", "d", " ", "m", "o", "v", "e", ":", " ">> \o move]

apply_move(cb, move) ==
  LET m == Strip(move)
  IN  IF m = <<"U">> THEN Returned(move_U(cb))
      ELSE IF m = <<"U", "'">> THEN Returned(move_U_prime(cb))
      ELSE IF m = <<"D">> THEN Returned(move_D(cb))
      ELSE IF m = <<"D", "'">> THEN Returned(move_D_prime(cb))
      ELSE IF m = <<"R">> THEN Returned(move_R(cb))
      ELSE IF m = <<"R", "'">> THEN Returned(move_R_prime(cb))
      ELSE IF m = <<"L">> THEN Returned(move_L(cb))
      ELSE IF m = <<"L", "'">> THEN Returned(move_L_prime(cb))
      ELSE IF m = <<"F">> THEN Returned(move_F(cb))
      ELSE IF m = <<"F", "'">> THEN Returned(move_F_prime(cb))
      ELSE IF m = <<"B">> THEN Returned(move_B(cb))
      ELSE IF m = <<"B", "'">> THEN Returned(move_B_prime(cb))
      ELSE IF m = <<"U", "2">> THEN Returned(move_U(move_U(cb)))
      ELSE IF m = <<"D", "2">> THEN Returned(move_D(move_D(cb)))
      ELSE IF m = <<"R", "2">> THEN Returned(move_R(move_R(cb)))
      ELSE IF m = <<"L", "2">> THEN Returned(move_L(move_L(cb)))
      ELSE IF m = <<"F", "2">> THEN Returned(move_F(move_F(cb)))
      ELSE IF m = <<"B", "2">> THEN Returned(move_B(move_B(cb)))
      ELSE InvalidMove(cb, m)

\* the loop that swallows a raise and goes on with the next move
RECURSIVE ApplyRange_KeepGoing(_, _, _, _)
ApplyRange_KeepGoing(cb, move_list, lo, hi) ==
  IF lo > hi THEN Returned(cb)
  ELSE IF lo = hi THEN apply_move(cb, move_list[lo])
    ELSE LET mid == (lo + hi) \div 2
             left == ApplyRange_KeepGoing(cb, move_list, lo, mid)
         IN  ApplyRange_KeepGoing(left.cube, move_list, mid + 1, hi)

\* for move in move_list[lo..hi]: self.apply_move(move) -- the first raise ends the loop
\* (halving keeps the evaluation shallow; the moves are applied left to right)
RECURSIVE ApplyRange(_, _, _, _)
ApplyRange(cb, move_list, lo, hi) ==
  IF lo > hi THEN Returned(cb)
  ELSE IF lo = hi THEN apply_move(cb, move_list[lo])
    ELSE LET mid == (lo + hi) \div 2
             left == ApplyRange(cb, move_list, lo, mid)
         IN  IF left.raised THEN left ELSE ApplyRange(left.cube, move_list, mid + 1, hi)

apply_moves(cb, moves) ==
  IF Strip(moves) = <<>> THEN Returned(cb)
  ELSE LET move_list == Split(Strip(moves))
       IN  ApplyRange(cb, move_list, 1, Len(move_list))

----------------------------------------------------------------------------
(* solver.py: the algorithm tables.  Each str literal is written as the    *)
(* join of its tokens.                                                     *)

Cw(face) == <<face>>

Ccw(face) == <<face, "'">>

Twice(face) == <<face, "2">>

white_cross_patterns ==
  [edge_flip |-> Join(<<Cw("F"), Cw("R"), Cw("U"), Ccw("R"), Ccw("U"), Ccw("F")>>),
   edge_position |-> Join(<<Cw("R"), Cw("U"), Ccw("R"), Cw("F"), Cw("R"), Ccw("F")>>)]

white_corner_patterns ==
  [right_hand |-> Join(<<Cw("R"), Cw("U"), Ccw("R"), Ccw("U"), Cw("R"), Cw("U"), Ccw("R")>>),
   left_hand |-> Join(<<Ccw("L"), Ccw("U"), Cw("L"), Cw("U"), Ccw("L"), Ccw("U"), Cw("L")>>),
   corner_flip |-> Join(<<Cw("R"), Cw("U"), Ccw("R"), Ccw("U"), Cw("R"), Cw("U"), Ccw("R"),
                          Ccw("U"), Cw("R"), Cw("U"), Ccw("R")>>)]

middle_layer_patterns ==
  [right_insert |-> Join(<<Cw("U"), Cw("R"), Ccw("U"), Ccw("R"), Ccw("U"), Ccw("F"), Cw("U"), Cw("F")>>),
   left_insert |-> Join(<<Ccw("U"), Ccw("L"), Cw("U"), Cw("L"), Cw("U"), Cw("F"), Ccw("U"), Ccw("F")>>)]

yellow_cross_patterns ==
  [line |-> Join(<<Cw("F"), Cw("R"), Cw("U"), Ccw("R"), Ccw("U"), Ccw("F")>>),
   L_shape |-> Join(<<Cw("F"), Cw("U"), Cw("R"), Ccw("U"), Ccw("R"), Ccw("F")>>),
   dot |-> Join(<<Cw("F"), Cw("R"), Cw("U"), Ccw("R"), Ccw("U"), Ccw("F"), Cw("U"),
                  Cw("F"), Cw("R"), Cw("U"), Ccw("R"), Ccw("U"), Ccw("F")>>)]

yellow_corner_patterns ==
  [sune |-> Join(<<Cw("R"), Cw("U"), Ccw("R"), Cw("U"), Cw("R"), Twice("U"), Ccw("R")>>),
   antisune |-> Join(<<Cw("R"), Twice("U"), Ccw("R"), Ccw("U"), Cw("R"), Ccw("U"), Ccw("R")>>),
   pi |-> Join(<<Cw("R"), Twice("U"), Twice("R"), Ccw("U"), Twice("R"), Ccw("U"), Twice("R"),
                 Twice("U"), Cw("R")>>),
   h |-> Join(<<Cw("R"), Cw("U"), Ccw("R"), Cw("U"), Cw("R"), Ccw("U"), Ccw("R"), Cw("U"),
                Cw("R"), Twice("U"), Ccw("R")>>)]

pll_patterns ==
  [adjacent_swap |-> Join(<<Cw("R"), Cw("U"), Ccw("R"), Ccw("F"), Cw("R"), Cw("U"), Ccw("R"),
                            Ccw("U"), Ccw("R"), Cw("F"), Twice("R"), Ccw("U"), Ccw("R")>>),
   diagonal_swap |-> Join(<<Cw("F"), Cw("R"), Ccw("U"), Ccw("R"), Ccw("U"), Cw("R"), Cw("U"),
                            Ccw("R"), Ccw("F"), Cw("R"), Cw("U"), Ccw("R"), Ccw("U"), Ccw("R"),
                            Cw("F"), Cw("R"), Ccw("F")>>),
   clockwise_cycle |-> Join(<<Ccw("R"), Cw("F"), Ccw("R"), Twice("B"), Cw("R"), Ccw("F"),
                              Ccw("R"), Twice("B"), Twice("R")>>),
   counterclockwise_cycle |-> Join(<<Twice("R"), Twice("B"), Cw("R"), Cw("F"), Ccw("R"),
                                     Twice("B"), Cw("R"), Ccw("F"), Cw("R")>>)]

----------------------------------------------------------------------------
(* solver.py: the detectors.                                               *)

is_white_cross_solved(cb) ==
  /\ cb["D"][0][1] = 0
  /\ cb["D"][1][0] = 0
  /\ cb["D"][1][2] = 0
  /\ cb["D"][2][1] = 0

\* a first-layer test for the colour of the centre of D
is_first_layer_solved_CentreColour(cb) == AllEqual(cb["D"], FaceIndex("D"))

is_first_layer_solved(cb) == AllEqual(cb["D"], 0)

is_middle_layer_solved(cb) ==
  ~ \E face \in {"F", "R", "B", "L"} : \E pos \in {<<1, 0>>, <<1, 2>>} :
      cb[face][pos[1]][pos[2]] = 1

is_yellow_cross_formed(cb) ==
  /\ cb["U"][0][1] = 1
  /\ cb["U"][1][0] = 1
  /\ cb["U"][1][2] = 1
  /\ cb["U"][2][1] = 1

get_yellow_cross_pattern(cb) ==
  LET edges == <<cb["U"][0][1], cb["U"][1][0], cb["U"][1][2], cb["U"][2][1]>>
      yellow_count == Cardinality({k \in 1..4 : edges[k] = 1})
  IN  IF yellow_count = 0 THEN "dot"
      ELSE IF yellow_count = 2
        THEN IF \/ cb["U"][0][1] = 1 /\ cb["U"][2][1] = 1
                \/ cb["U"][1][0] = 1 /\ cb["U"][1][2] = 1
               THEN "line" ELSE "L"
        ELSE "cross"

is_top_face_yellow(cb) == AllEqual(cb["U"], 1)

\* a classifier with a name of its own for the top face with four corners done
get_yellow_corner_pattern_Four(cb) ==
  LET corners == <<cb["U"][0][0], cb["U"][0][2], cb["U"][2][0], cb["U"][2][2]>>
      yellow_corners == Cardinality({k \in 1..4 : corners[k] = 1})
  IN  IF yellow_corners = 1 THEN "sune"
      ELSE IF yellow_corners = 2 THEN "antisune"
      ELSE IF yellow_corners = 4 THEN "h"
      ELSE "pi"

get_yellow_corner_pattern(cb) ==
  LET corners == <<cb["U"][0][0], cb["U"][0][2], cb["U"][2][0], cb["U"][2][2]>>
      yellow_corners == Cardinality({k \in 1..4 : corners[k] = 1})
  IN  IF yellow_corners = 1 THEN "sune"
      ELSE IF yellow_corners = 2 THEN "antisune"
      ELSE "pi"

are_corners_positioned(cb) ==
  \A face \in {"F", "R", "B", "L"} :
    cb[face][0][0] = FaceIndex(face) /\ cb[face][0][2] = FaceIndex(face)

are_edges_positioned(cb) ==
  \A face \in {"F", "R", "B", "L"} : cb[face][0][1] = FaceIndex(face)

----------------------------------------------------------------------------
(* solver.py: one iteration of each phase, on the pair of the working cube *)
(* and the list of moves made so far.                                      *)

\* moves.extend(algorithm.split()); cube.apply_moves(algorithm)
Apply(st, alg) ==
  [cube |-> apply_moves(st.cube, alg).cube, moves |-> st.moves \o Split(alg)]

\* the move applied to the cube but not appended to the list
Turn_NotRecorded(st, move) ==
  [cube |-> apply_move(st.cube, move).cube, moves |-> st.moves]

\* moves.append(move); cube.apply_move(move)
Turn(st, move) ==
  [cube |-> apply_move(st.cube, move).cube, moves |-> Append(st.moves, move)]

\* _solve_white_cross: the body of the loop over the four faces
white_cross_step(st) ==
  LET up == st.cube["U"]
      st1 == IF up[1][0] = 0 THEN Apply(st, Join(<<Cw("L"), Cw("F"), Ccw("L")>>))
             ELSE IF up[0][1] = 0 THEN Apply(st, Join(<<Cw("F"), Cw("F")>>))
             ELSE IF up[1][2] = 0 THEN Apply(st, Join(<<Ccw("R"), Cw("F"), Cw("R")>>))
             ELSE IF up[2][1] = 0 THEN Apply(st, Cw("U"))
             ELSE st
  IN  Turn(st1, Cw("U"))

\* _solve_white_corners: the body of the attempt loop
white_corners_step(st) ==
  IF \E pos \in {<<0, 0>>, <<0, 2>>, <<2, 0>>, <<2, 2>>} : st.cube["U"][pos[1]][pos[2]] = 0
    THEN Apply(st, white_corner_patterns.right_hand)
    ELSE Turn(st, Cw("U"))

\* _solve_middle_layer: the body of the attempt loop; the first of the edge
\* positions that is not yellow picks the algorithm by its column
middle_layer_step(st) ==
  LET edge_positions == <<(<<0, 1>>), (<<1, 0>>), (<<1, 2>>), (<<2, 1>>)>>
      found == {k \in 1..4 : st.cube["U"][edge_positions[k][1]][edge_positions[k][2]] # 1}
  IN  IF found = {} THEN Turn(st, Cw("U"))
      ELSE LET k == CHOOSE i \in found : \A j \in found : i <= j
           IN  IF edge_positions[k][2] = 2
                 THEN Apply(st, middle_layer_patterns.right_insert)
                 ELSE Apply(st, middle_layer_patterns.left_insert)

\* _solve_yellow_cross: the body of the attempt loop
yellow_cross_step(st) ==
  LET yellow_pattern == get_yellow_cross_pattern(st.cube)
  IN  IF yellow_pattern = "dot" THEN Apply(st, yellow_cross_patterns.dot)
      ELSE IF yellow_pattern = "line" THEN Apply(st, yellow_cross_patterns.line)
      ELSE IF yellow_pattern = "L" THEN Apply(st, yellow_cross_patterns.L_shape)
      ELSE Apply(st, yellow_cross_patterns.line)

\* _solve_yellow_corners: the body of the attempt loop
yellow_corners_step(st) ==
  LET corner_pattern == get_yellow_corner_pattern(st.cube)
  IN  IF corner_pattern \in DOMAIN yellow_corner_patterns
        THEN Apply(st, yellow_corner_patterns[corner_pattern])
        ELSE Apply(st, yellow_corner_patterns.sune)

\* _solve_pll with nothing done when corners and edges are positioned
pll_step_NoTurn(st) ==
  IF ~ are_corners_positioned(st.cube) THEN Apply(st, pll_patterns.adjacent_swap)
  ELSE IF ~ are_edges_positioned(st.cube) THEN Apply(st, pll_patterns.clockwise_cycle)
  ELSE st

\* _solve_pll: the body of the attempt loop
pll_step(st) ==
  IF ~ are_corners_positioned(st.cube) THEN Apply(st, pll_patterns.adjacent_swap)
  ELSE IF ~ are_edges_positioned(st.cube) THEN Apply(st, pll_patterns.clockwise_cycle)
  ELSE Turn(st, Cw("U"))

\* the phases of CubeSolver.solve, in its order
Phases == <<"cross", "corners", "middle", "yellow_cross", "yellow_corners", "pll">>

PhaseNames == {Phases[k] : k \in 1..Len(Phases)}

\* every phase given a hundred attempts
max_attempts_Hundred(phase) == 100

\* max_attempts of each phase
max_attempts(phase) ==
  CASE phase = "cross" -> 50
    [] phase = "corners" -> 50
    [] phase = "middle" -> 100
    [] phase = "yellow_cross" -> 20
    [] phase = "yellow_corners" -> 50
    [] phase = "pll" -> 50

\* iterations of the loop inside one attempt: for face in ['F', 'R', 'B', 'L']
inner_steps(phase) == IF phase = "cross" THEN 4 ELSE 1

\* the test that breaks out of the attempt loop
phase_solved(phase, cb) ==
  CASE phase = "cross" -> is_white_cross_solved(cb)
    [] phase = "corners" -> is_first_layer_solved(cb)
    [] phase = "middle" -> is_middle_layer_solved(cb)
    [] phase = "yellow_cross" -> is_yellow_cross_formed(cb)
    [] phase = "yellow_corners" -> is_top_face_yellow(cb)
    [] phase = "pll" -> is_solved(cb)

phase_step(phase, st) ==
  CASE phase = "cross" -> white_cross_step(st)
    [] phase = "corners" -> white_corners_step(st)
    [] phase = "middle" -> middle_layer_step(st)
    [] phase = "yellow_cross" -> yellow_cross_step(st)
    [] phase = "yellow_corners" -> yellow_corners_step(st)
    [] phase = "pll" -> pll_step(st)

----------------------------------------------------------------------------
(* solver_kociemba.py, and the external two-phase solver it calls.         *)

\* self.face_order
face_order == <<"U", "R", "F", "D", "L", "B">>

\* a mapping that gives two colours the same letter
color_to_face_Merged == [c \in 0..5 |-> <<"U", "U", "F", "B", "L", "R">>[c + 1]]

\* color_to_face = {0: 'U', 1: 'D', 2: 'F', 3: 'B', 4: 'L', 5: 'R'}
color_to_face == [c \in 0..5 |-> <<"U", "D", "F", "B", "L", "R">>[c + 1]]

\* for col in range(3): kociemba_string += color_to_face[face_array[row][col]]
RowLetters(grid, row) ==
  <<color_to_face[grid[row][0]], color_to_face[grid[row][1]], color_to_face[grid[row][2]]>>

\* for row in range(3): ...
FaceLetters(grid) == RowLetters(grid, 0) \o RowLetters(grid, 1) \o RowLetters(grid, 2)

\* the faces taken in the order of cube.FACES
cube_to_kociemba_string_CubeOrder(cb) ==
  FaceLetters(cb[FACES[1]]) \o FaceLetters(cb[FACES[2]]) \o FaceLetters(cb[FACES[3]])
    \o FaceLetters(cb[FACES[4]]) \o FaceLetters(cb[FACES[5]]) \o FaceLetters(cb[FACES[6]])

\* KociembaSolver.cube_to_kociemba_string: for face_name in self.face_order: ...
cube_to_kociemba_string(cb) ==
  FaceLetters(cb[face_order[1]]) \o FaceLetters(cb[face_order[2]]) \o FaceLetters(cb[face_order[3]])
    \o FaceLetters(cb[face_order[4]]) \o FaceLetters(cb[face_order[5]]) \o FaceLetters(cb[face_order[6]])

\* str(x) of a colour index
Digit(x) == <<"0", "1", "2", "3", "4", "5">>[x + 1]

\* "".join(str(x) for row in grid for x in row)
FaceDigits(grid) ==
  <<Digit(grid[0][0]), Digit(grid[0][1]), Digit(grid[0][2]),
    Digit(grid[1][0]), Digit(grid[1][1]), Digit(grid[1][2]),
    Digit(grid[2][0]), Digit(grid[2][1]), Digit(grid[2][2])>>

\* RubiksCube.get_state_string: for face in self.FACES: state += ...
get_state_string(cb) ==
  FaceDigits(cb[FACES[1]]) \o FaceDigits(cb[FACES[2]]) \o FaceDigits(cb[FACES[3]])
    \o FaceDigits(cb[FACES[4]]) \o FaceDigits(cb[FACES[5]]) \o FaceDigits(cb[FACES[6]])

\* the syntactic inverse of a token: X <-> X', X2 <-> X2
InverseToken(move) ==
  IF Len(move) = 1 THEN move \o <<"'">>
  ELSE IF move[2] = "'" THEN <<move[1]>> ELSE move

\* what kociemba.solve may do for the cube a scramble made: return a solution
\* (here the scramble undone, last token first), return its error sentinel, or
\* raise
kociemba_solve(scr) ==
  LET tokens == Split(scr)
  IN  {[kind |-> "solution",
        text |-> Join([k \in 1..Len(tokens) |-> InverseToken(tokens[Len(tokens) + 1 - k])])],
       [kind |-> "sentinel", text |-> <<>>],
       [kind |-> "raise", text |-> <<>>]}

\* KociembaSolver.solve without its test for a solved cube: the library is
\* always called
KociembaSolver_solve_AlwaysCalls(cb, answer) ==
  IF answer.kind = "raise"
    THEN [solution |-> <<>>, error |-> "Kociemba solver error: ", moves |-> 0,
          called |-> <<answer.kind>>]
  ELSE IF answer.kind = "sentinel"
    THEN [solution |-> <<>>, error |-> "Invalid cube state - cannot solve", moves |-> 0,
          called |-> <<answer.kind>>]
  ELSE [solution |-> answer.text, error |-> "",
        moves |-> IF answer.text # <<>> THEN Len(Split(answer.text)) ELSE 0,
        called |-> <<answer.kind>>]

\* KociembaSolver.solve: the solution and the stats (error, moves), and the
\* calls of kociemba.solve it made, each with what the library did
KociembaSolver_solve(cb, answer) ==
  IF is_solved(cb) THEN [solution |-> <<>>, error |-> "", moves |-> 0, called |-> <<>>]
  ELSE IF answer.kind = "raise"
    THEN [solution |-> <<>>, error |-> "Kociemba solver error: ", moves |-> 0,
          called |-> <<answer.kind>>]
  ELSE IF answer.kind = "sentinel"
    THEN [solution |-> <<>>, error |-> "Invalid cube state - cannot solve", moves |-> 0,
          called |-> <<answer.kind>>]
  ELSE [solution |-> answer.text, error |-> "",
        moves |-> IF answer.text # <<>> THEN Len(Split(answer.text)) ELSE 0,
        called |-> <<answer.kind>>]

\* verify_solution without the replay: the cube as it is
verify_solution_NoReplay(cb, sol) == is_solved(cb)

\* KociembaSolver.verify_solution
verify_solution(cb, sol) ==
  IF sol = <<>> THEN is_solved(cb)
  ELSE LET r == apply_moves(copy(cb), sol)
       IN  IF r.raised THEN FALSE ELSE is_solved(r.cube)

----------------------------------------------------------------------------
(* The 18 move tokens, as the callers write them.                          *)

MOVES ==
  {<<f>> : f \in FaceNames} \cup {<<f, "'">> : f \in FaceNames} \cup {<<f, "2">> : f \in FaceNames}

----------------------------------------------------------------------------
(* The engine under any sequence of legal moves.                           *)

NoResponse == [kind |-> "none"]

\* no request is being handled
NoRequest ==
  /\ scramble = <<>>
  /\ algorithm = ""
  /\ work = NewCube
  /\ attempt = 0
  /\ inner = 0
  /\ solution_moves = <<>>
  /\ solution = <<>>
  /\ response = NoResponse
  /\ external = <<>>
  /\ pending = <<>>
  /\ scramble_moves = <<>>
  /\ last_face = ""

\* no cube object is being followed in memory
NoCubes ==
  /\ heap = <<>>
  /\ objs = <<>>
  /\ acted = 0

Init ==
  /\ cube = NewCube
  /\ prev = NewCube
  /\ last = <<>>
  /\ op = "__init__"
  /\ outcome = Returned(NewCube)
  /\ ncalls = 0
  /\ pc = "idle"
  /\ NoRequest
  /\ NoCubes

\* cube.apply_move(move) with one of the 18 tokens
Move(move) ==
  /\ ncalls < MaxMoves
  /\ prev' = cube
  /\ last' = move
  /\ op' = "apply_move"
  /\ outcome' = apply_move(cube, move)
  /\ cube' = outcome'.cube
  /\ ncalls' = ncalls + 1
  /\ UNCHANGED <<handlerVars, memVars>>

Next == \E move \in MOVES : Move(move)

Spec == Init /\ [][Next]_vars

----------------------------------------------------------------------------
(* One engine call with a str the caller typed: any text of at most        *)
(* MaxText characters over TextAlphabet, on a new cube or a scrambled one. *)

TextAlphabet == {"U", "F", "'", " ", "X"}

Texts == UNION {[1..n -> TextAlphabet] : n \in 0..MaxText}

InitText ==
  /\ cube \in {NewCube, move_R(move_F(NewCube))}
  /\ prev = cube
  /\ last = <<>>
  /\ op = "__init__"
  /\ outcome = Returned(cube)
  /\ ncalls = 0
  /\ pc = "idle"
  /\ NoRequest
  /\ NoCubes

\* what the caller may pass: any text for the one call, nothing after it
Typed == IF ncalls = 0 THEN Texts ELSE {}

\* cube.apply_move(text)
CallApplyMove(text) ==
  /\ ncalls = 0
  /\ prev' = cube
  /\ last' = text
  /\ op' = "apply_move"
  /\ outcome' = apply_move(cube, text)
  /\ cube' = outcome'.cube
  /\ ncalls' = ncalls + 1
  /\ UNCHANGED <<handlerVars, memVars>>

\* cube.apply_moves(text)
CallApplyMoves(text) ==
  /\ ncalls = 0
  /\ prev' = cube
  /\ last' = text
  /\ op' = "apply_moves"
  /\ outcome' = apply_moves(cube, text)
  /\ cube' = outcome'.cube
  /\ ncalls' = ncalls + 1
  /\ UNCHANGED <<handlerVars, memVars>>

NextText ==
  \/ \E text \in Typed : CallApplyMove(text)
  \/ \E text \in Typed : CallApplyMoves(text)

SpecText == InitText /\ [][NextText]_vars

----------------------------------------------------------------------------
(* app.py: the solve handler, from the request to the response.  The       *)
(* handler runs CubeSolver.solve one loop iteration at a time.             *)

\* the scrambles requested: up to MaxScramble of ScrambleTokens, each single
\* token, the demonstration scrambles of main.py, and text that is no scramble
ScrambleTokens == {Cw("U"), Ccw("U"), Cw("R"), Cw("F")}

DemoScrambles ==
  {Join(<<Cw("R"), Cw("U"), Ccw("R"), Cw("F"), Cw("R"), Ccw("F")>>),
   Join(<<Cw("R"), Cw("U"), Ccw("R"), Cw("U"), Cw("R"), Twice("U"), Ccw("R")>>),
   Join(<<Cw("F"), Cw("R"), Ccw("U"), Ccw("R"), Ccw("U"), Cw("R"), Cw("U"), Ccw("R"), Ccw("F")>>),
   Join(<<Cw("R"), Cw("U"), Ccw("R"), Ccw("U"), Ccw("R"), Cw("F"), Twice("R"), Ccw("U"),
          Ccw("R"), Ccw("U"), Cw("R"), Cw("U"), Ccw("R"), Ccw("F")>>)}

Scrambles ==
  {Join(tokens) : tokens \in UNION {[1..n -> ScrambleTokens] : n \in 0..MaxScramble}}
    \cup MOVES \cup DemoScrambles
    \cup {<<" ">>, <<"X">>, <<"U", " ", "X">>, <<" ", "U", "2", " ">>}

Algorithms == {"kociemba", "Kociemba", "layer"}

\* str.lower(), on the algorithms requested
Lower(a) == IF a = "Kociemba" THEN "kociemba" ELSE a

\* jsonify({'error': ...}), status: the message is a literal followed by a str
Error(status, literal, arg) ==
  [kind |-> "error", status |-> status, literal |-> literal, arg |-> arg]

\* jsonify(response_data): solution, move_count, verified
Result(sol, count, verified) ==
  [kind |-> "result", status |-> 200, solution |-> sol, move_count |-> count,
   verified |-> verified]

InitSolve ==
  /\ cube = NewCube
  /\ prev = NewCube
  /\ last = <<>>
  /\ op = "__init__"
  /\ outcome = Returned(NewCube)
  /\ ncalls = 0
  /\ pc = "request"
  /\ scramble \in Scrambles
  /\ algorithm \in Algorithms
  /\ work = NewCube
  /\ attempt = 0
  /\ inner = 0
  /\ solution_moves = <<>>
  /\ solution = <<>>
  /\ response = NoResponse
  /\ external = <<>>
  /\ pending = <<>>
  /\ scramble_moves = <<>>
  /\ last_face = ""
  /\ NoCubes

\* solve_cube up to the choice of the solver: an empty scramble is refused, the
\* scramble is applied to a new cube, a ValueError is answered with status 400
Request ==
  /\ pc = "request"
  /\ LET scr == Strip(scramble)
         r == apply_moves(NewCube, scr)
     IN  IF scr = <<>>
           THEN /\ response' = Error(400, "No scramble provided", <<>>)
                /\ pc' = "done"
                /\ UNCHANGED engineVars
           ELSE /\ prev' = NewCube
                /\ last' = scr
                /\ op' = "apply_moves"
                /\ outcome' = r
                /\ cube' = r.cube
                /\ ncalls' = ncalls + 1
                /\ IF r.raised
                     THEN /\ response' = Error(400, "Invalid scramble: ", r.msg)
                          /\ pc' = "done"
                     ELSE /\ response' = response
                          /\ pc' = IF Lower(algorithm) = "kociemba" THEN "kociemba" ELSE "solve"
  /\ UNCHANGED <<scramble, algorithm, work, attempt, inner, solution_moves, solution, external, pending,
                 scramble_moves, last_face, memVars>>

\* a kociemba branch that goes on to CubeSolver.solve when KociembaSolver.solve
\* reports an error
Kociemba_FallsBack ==
  /\ pc = "kociemba"
  /\ \E answer \in kociemba_solve(Strip(scramble)) :
       LET res == KociembaSolver_solve(cube, answer)
       IN  /\ solution' = res.solution
           /\ external' = external \o res.called
           /\ response' = IF res.error # ""
                            THEN response
                            ELSE Result(res.solution, res.moves,
                                        verify_solution(cube, res.solution))
           /\ pc' = IF res.error # "" THEN "solve" ELSE "done"
  /\ UNCHANGED <<engineVars, scramble, algorithm, work, attempt, inner, solution_moves, pending,
                 scramble_moves, last_face, memVars>>

\* the kociemba branch of solve_cube: KociembaSolver.solve, verify_solution
Kociemba ==
  /\ pc = "kociemba"
  /\ \E answer \in kociemba_solve(Strip(scramble)) :
       LET res == KociembaSolver_solve(cube, answer)
       IN  /\ solution' = res.solution
           /\ external' = external \o res.called
           /\ response' = IF res.error # ""
                            THEN Error(400, res.error, <<>>)
                            ELSE Result(res.solution, res.moves,
                                        verify_solution(cube, res.solution))
  /\ pc' = "done"
  /\ UNCHANGED <<engineVars, scramble, algorithm, work, attempt, inner, solution_moves, pending,
                 scramble_moves, last_face, memVars>>

\* CubeSolver.solve up to the first phase: a solved cube returns "" at once
SolveBegin ==
  /\ pc = "solve"
  /\ IF is_solved(cube)
       THEN /\ solution' = <<>>
            /\ pc' = "verify"
            /\ UNCHANGED <<work, solution_moves>>
       ELSE /\ work' = copy(cube)
            /\ solution_moves' = <<>>
            /\ pc' = Phases[1]
            /\ UNCHANGED solution
  /\ attempt' = 0
  /\ inner' = 0
  /\ UNCHANGED <<engineVars, scramble, algorithm, response, external, pending,
                 scramble_moves, last_face, memVars>>

\* an attempt loop that ends at its bound only, without the solved test
PhaseOver_BoundOnly ==
  /\ pc \in PhaseNames
  /\ inner = 0
  /\ attempt = max_attempts(pc)

\* the attempt loop of the running phase ends
PhaseOver ==
  /\ pc \in PhaseNames
  /\ inner = 0
  /\ attempt = max_attempts(pc) \/ phase_solved(pc, work)

\* a phase returns its moves; after the last one CubeSolver.solve returns
\* " ".join(solution_moves)
PhaseExit ==
  /\ PhaseOver
  /\ LET k == CHOOSE i \in 1..Len(Phases) : Phases[i] = pc
     IN  IF k < Len(Phases)
           THEN pc' = Phases[k + 1] /\ UNCHANGED solution
           ELSE pc' = "verify" /\ solution' = Join(solution_moves)
  /\ attempt' = 0
  /\ inner' = 0
  /\ UNCHANGED <<engineVars, scramble, algorithm, work, solution_moves, response, external, pending,
                 scramble_moves, last_face, memVars>>

\* one iteration of the running phase
PhaseStep ==
  /\ pc \in PhaseNames
  /\ ~ PhaseOver
  /\ LET st == phase_step(pc, [cube |-> work, moves |-> solution_moves])
     IN  work' = st.cube /\ solution_moves' = st.moves
  /\ inner' = (inner + 1) % inner_steps(pc)
  /\ attempt' = IF inner' = 0 THEN attempt + 1 ELSE attempt
  /\ UNCHANGED <<engineVars, pc, scramble, algorithm, solution, response, external, pending,
                 scramble_moves, last_face, memVars>>

\* the layer-by-layer branch of solve_cube after solver.solve(cube): the
\* solution is applied to the scrambled cube and is_solved is the verified flag
Verify ==
  /\ pc = "verify"
  /\ \E r \in {apply_moves(cube, solution)} :
         /\ prev' = cube
         /\ last' = solution
         /\ op' = "apply_moves"
         /\ outcome' = r
         /\ cube' = r.cube
         /\ ncalls' = ncalls + 1
         /\ response' =
              IF r.raised THEN Error(400, "Invalid scramble: ", r.msg)
              ELSE Result(solution,
                          IF solution # <<>> THEN Len(Split(solution)) ELSE 0,
                          is_solved(r.cube))
  /\ pc' = "done"
  /\ UNCHANGED <<scramble, algorithm, work, attempt, inner, solution_moves, solution, external, pending,
                 scramble_moves, last_face, memVars>>

NextSolve ==
  \/ Request
  \/ Kociemba
  \/ SolveBegin
  \/ PhaseExit
  \/ PhaseStep
  \/ Verify

SpecSolve == InitSolve /\ [][NextSolve]_vars

----------------------------------------------------------------------------
(* app.py: the validate handler, on the text a caller sends.               *)

\* jsonify({'valid': ..., 'message': ...}): the message is a literal followed
\* by a str
Validation(valid, literal, arg) ==
  [kind |-> "validation", valid |-> valid, literal |-> literal, arg |-> arg]

\* a validate that accepts whatever it is sent
validate_moves_AcceptsAll(text) == Validation(TRUE, "Valid move sequence", <<>>)

\* validate_moves: the moves are stripped; an empty text is valid; otherwise
\* they are applied to a new cube, and a ValueError makes them invalid
validate_moves(text) ==
  LET moves == Strip(text)
      r == apply_moves(NewCube, moves)
  IN  IF moves = <<>> THEN Validation(TRUE, "Empty move sequence", <<>>)
      ELSE IF r.raised THEN Validation(FALSE, "Invalid moves: ", r.msg)
      ELSE Validation(TRUE, "Valid move sequence", <<>>)
             @@ [move_count |-> Len(Split(moves))]

\* a caller with a cube of its own has a text validated
CallValidate(text) ==
  /\ ncalls = 0
  /\ op' = "validate"
  /\ last' = text
  /\ prev' = cube
  /\ response' = validate_moves(text)
  /\ ncalls' = ncalls + 1
  /\ UNCHANGED <<cube, outcome, memVars>>
  /\ UNCHANGED <<pc, scramble, algorithm, work, attempt, inner, solution_moves, solution, external,
                 pending, scramble_moves, last_face>>

NextValidate == \E text \in Typed : CallValidate(text)

SpecValidate == InitText /\ [][NextValidate]_vars

----------------------------------------------------------------------------
(* app.py: the scramble handler.                                           *)

\* moves = ['U', 'U\'', 'U2', 'D', ...]
all_moves ==
  <<Cw("U"), Ccw("U"), Twice("U"), Cw("D"), Ccw("D"), Twice("D"),
    Cw("R"), Ccw("R"), Twice("R"), Cw("L"), Ccw("L"), Twice("L"),
    Cw("F"), Ccw("F"), Twice("F"), Cw("B"), Ccw("B"), Twice("B")>>

\* for _ in range(20)
ScrambleLength == 20

\* the moves with none left out
available_moves_Unfiltered(face) == all_moves

\* available_moves = [m for m in moves if m[0] != last_face]
available_moves(face) == SelectSeq(all_moves, LAMBDA m : m[1] # face)

\* the place of a move in the list of moves
MoveIndex(move) == CHOOSE i \in 1..Len(all_moves) : all_moves[i] = move

RECURSIVE SumOfIndices(_, _)
SumOfIndices(drawn, n) ==
  IF n = 0 THEN 0 ELSE SumOfIndices(drawn, n - 1) + n * MoveIndex(drawn[n])

\* random.choice(seq): any element for the first MaxDraws draws of a request;
\* for the later ones the generator, which is deterministic, draws the element
\* at the index the moves drawn so far give
random_choice(seq, drawn) ==
  IF Len(drawn) < MaxDraws THEN {seq[i] : i \in 1..Len(seq)}
  ELSE {seq[(SumOfIndices(drawn, Len(drawn)) % Len(seq)) + 1]}

\* jsonify({'scramble': scramble, 'cube_state': cube_visualization}); the
\* colours of the cells are listed face by face
Scrambled(scr, cb) == [kind |-> "scramble", scramble |-> scr, cube_state |-> cb]

InitScramble ==
  /\ cube = NewCube
  /\ prev = NewCube
  /\ last = <<>>
  /\ op = "__init__"
  /\ outcome = Returned(NewCube)
  /\ ncalls = 0
  /\ pc = "generate"
  /\ NoRequest
  /\ NoCubes

\* one iteration of the loop: a move is drawn among those not on the face of
\* the move before
DrawMove ==
  /\ pc = "generate"
  /\ Len(scramble_moves) < ScrambleLength
  /\ \E move \in random_choice(available_moves(last_face), scramble_moves) :
       /\ scramble_moves' = Append(scramble_moves, move)
       /\ last_face' = move[1]
  /\ UNCHANGED <<engineVars, pc, scramble, algorithm, work, attempt, inner, solution_moves,
                 solution, response, external, pending, memVars>>

\* after the loop: the moves are joined, applied to a new cube, and answered
ScrambleDone ==
  /\ pc = "generate"
  /\ Len(scramble_moves) = ScrambleLength
  /\ scramble' = Join(scramble_moves)
  /\ \E r \in {apply_moves(NewCube, Join(scramble_moves))} :
       /\ prev' = NewCube
       /\ last' = Join(scramble_moves)
       /\ op' = "apply_moves"
       /\ outcome' = r
       /\ cube' = r.cube
       /\ response' = Scrambled(Join(scramble_moves), r.cube)
  /\ ncalls' = ncalls + 1
  /\ pc' = "done"
  /\ UNCHANGED <<algorithm, work, attempt, inner, solution_moves, solution, external, pending,
                 scramble_moves, last_face, memVars>>

NextScramble == DrawMove \/ ScrambleDone

SpecScramble == InitScramble /\ [][NextScramble]_vars

----------------------------------------------------------------------------
(* cube.py on numpy arrays.  A face of a RubiksCube object is a reference  *)
(* to an array buffer seen through a view: np.rot90 returns a view of its  *)
(* argument, ndarray.copy() a new buffer, and an assignment to a row, a    *)
(* column or a cell of a face writes through the view into the buffer.     *)

\* np.rot90(m, 1) applied k times
RECURSIVE Rotated(_, _)
Rotated(grid, k) == IF k = 0 THEN grid ELSE Rotated(Rot90CCW(grid), k - 1)

\* the array a reference denotes: its buffer seen through its view
ViewOf(h, ref) == Rotated(h[ref.buf], ref.rot)

\* the faces of an object, as the arrays its references denote
FacesOf(h, obj) == [face \in FaceNames |-> ViewOf(h, obj[face])]

\* RubiksCube(): np.full allocates a buffer for each face
NewBuffers == [i \in 1..Len(FACES) |-> Full(i - 1)]

NewObject == [face \in FaceNames |-> [buf |-> FaceIndex(face) + 1, rot |-> 0]]

\* the quarter turns, counted as np.rot90 counts them, that a legal token
\* gives the view of its face: rotate_face_clockwise is rot90(-1),
\* rotate_face_counterclockwise rot90(1), and X2 turns clockwise twice
ViewTurn(move) == IF Len(move) = 1 THEN 3 ELSE IF move[2] = "'" THEN 1 ELSE 2

\* apply_move, for a legal token, on an object: the turned face is rebound to
\* a view of its own buffer, and the strips are written through every face's
\* view into that face's buffer
RubiksCube_apply_move(h, obj, move) ==
  LET after == apply_move(FacesOf(h, obj), move).cube
      turned == [obj EXCEPT ![move[1]].rot = (@ + ViewTurn(move)) % 4]
  IN  [obj |-> turned,
       heap |-> [b \in DOMAIN h |->
                   IF \E face \in FaceNames : turned[face].buf = b
                     THEN LET face == CHOOSE f \in FaceNames : turned[f].buf = b
                          IN  Rotated(after[face], (4 - turned[face].rot) % 4)
                     ELSE h[b]]]

\* a copy that shares the arrays of the original
RubiksCube_copy_Shallow(h, obj) == [obj |-> obj, heap |-> h]

\* RubiksCube.copy: new_cube.faces[face] = self.faces[face].copy(), a new
\* buffer for every face holding what the original's view shows
RubiksCube_copy(h, obj) ==
  [obj |-> [face \in FaceNames |-> [buf |-> Len(h) + FaceIndex(face) + 1, rot |-> 0]],
   heap |-> h \o [i \in 1..Len(FACES) |-> ViewOf(h, obj[FACES[i]])]]

InitCopy ==
  /\ cube = NewCube
  /\ prev = NewCube
  /\ last = <<>>
  /\ op = "__init__"
  /\ outcome = Returned(NewCube)
  /\ ncalls = 0
  /\ pc = "idle"
  /\ NoRequest
  /\ heap = NewBuffers
  /\ objs = <<NewObject>>
  /\ acted = 1

\* a copy of the first object is made
CopyCube ==
  /\ Len(objs) = 1
  /\ \E c \in {RubiksCube_copy(heap, objs[1])} :
       /\ heap' = c.heap
       /\ objs' = Append(objs, c.obj)
       /\ prev' = FacesOf(heap, objs[1])
       /\ cube' = FacesOf(c.heap, c.obj)
  /\ acted' = Len(objs) + 1
  /\ op' = "copy"
  /\ last' = <<>>
  /\ outcome' = Returned(cube')
  /\ UNCHANGED <<ncalls, handlerVars>>

\* a legal move is applied to one of the objects
MoveCube(k, move) ==
  /\ ncalls < MaxMoves
  /\ \E m \in {RubiksCube_apply_move(heap, objs[k], move)} :
       /\ heap' = m.heap
       /\ objs' = [objs EXCEPT ![k] = m.obj]
       /\ prev' = FacesOf(heap, objs[k])
       /\ cube' = FacesOf(m.heap, m.obj)
  /\ acted' = k
  /\ op' = "apply_move"
  /\ last' = move
  /\ outcome' = Returned(cube')
  /\ ncalls' = ncalls + 1
  /\ UNCHANGED handlerVars

NextCopy ==
  \/ CopyCube
  \/ \E k \in 1..Len(objs) : \E move \in MOVES : MoveCube(k, move)

SpecCopy == InitCopy /\ [][NextCopy]_vars

----------------------------------------------------------------------------
(* Two callers at once, each with a cube of its own: one applies moves,    *)
(* the other scrambles its cube and has CubeSolver.solve solve it.  A step *)
(* is one move of one caller, or one decision of the solver.               *)

\* a RubiksCube whose faces are those of the first cube made
RubiksCube_init_SharedFaces(h) ==
  [obj |-> NewObject, heap |-> IF h = <<>> THEN NewBuffers ELSE h]

\* RubiksCube.__init__: self.faces = {}, with a new array for every face
RubiksCube_init(h) ==
  [obj |-> [face \in FaceNames |-> [buf |-> Len(h) + FaceIndex(face) + 1, rot |-> 0]],
   heap |-> h \o NewBuffers]

\* the moves the applying caller makes
CallerMoves == {Cw("U"), Ccw("R")}

\* the scrambles of the solving caller: one that leaves the cube scrambled and
\* one that leaves it solved
SolverScrambles == {Cw("F"), Join(<<Cw("U"), Ccw("U")>>)}

\* the object the applying caller owns, the one the solving caller owns, and
\* CubeSolver.solve's working_cube
CallerCube == 1

SolverCube == 2

WorkingCube == 3

InitConcurrent ==
  /\ cube = NewCube
  /\ prev = NewCube
  /\ last = <<>>
  /\ op = "__init__"
  /\ outcome = Returned(NewCube)
  /\ ncalls = 0
  /\ pc = "scramble"
  /\ scramble \in SolverScrambles
  /\ pending = Split(scramble)
  /\ algorithm = "layer"
  /\ work = NewCube
  /\ attempt = 0
  /\ inner = 0
  /\ solution_moves = <<>>
  /\ solution = <<>>
  /\ response = NoResponse
  /\ external = <<>>
  /\ scramble_moves = <<>>
  /\ last_face = ""
  /\ \E a \in {RubiksCube_init(<<>>)} : \E b \in {RubiksCube_init(a.heap)} :
       /\ heap = b.heap
       /\ objs = <<a.obj, b.obj>>
  /\ acted = 0

\* a solver without a copy of its own: every token is applied to the cube of
\* the solving caller
SolverMove_InPlace ==
  /\ pending # <<>>
  /\ \E m \in {RubiksCube_apply_move(heap, objs[SolverCube], Head(pending))} :
       /\ heap' = m.heap
       /\ objs' = [objs EXCEPT ![SolverCube] = m.obj]
       /\ prev' = FacesOf(heap, objs[SolverCube])
       /\ cube' = FacesOf(m.heap, m.obj)
  /\ acted' = SolverCube
  /\ op' = "apply_move"
  /\ last' = Head(pending)
  /\ outcome' = Returned(cube')
  /\ pending' = Tail(pending)
  /\ UNCHANGED <<ncalls, pc, scramble, algorithm, work, attempt, inner, solution_moves, solution,
                 response, external, scramble_moves, last_face>>

\* the solving caller's running loop applies its next token: to its cube
\* while scrambling, to the working cube inside CubeSolver.solve
SolverMove ==
  /\ pending # <<>>
  /\ LET k == IF pc = "scramble" THEN SolverCube ELSE WorkingCube
     IN  /\ \E m \in {RubiksCube_apply_move(heap, objs[k], Head(pending))} :
              /\ heap' = m.heap
              /\ objs' = [objs EXCEPT ![k] = m.obj]
              /\ prev' = FacesOf(heap, objs[k])
              /\ cube' = FacesOf(m.heap, m.obj)
         /\ acted' = k
  /\ op' = "apply_move"
  /\ last' = Head(pending)
  /\ outcome' = Returned(cube')
  /\ pending' = Tail(pending)
  /\ UNCHANGED <<ncalls, pc, scramble, algorithm, work, attempt, inner, solution_moves, solution,
                 response, external, scramble_moves, last_face>>

\* CubeSolver.solve is entered with the scrambled cube: a solved cube returns
\* "" at once, otherwise the working copy is made
SolverBegin ==
  /\ pc = "scramble"
  /\ pending = <<>>
  /\ IF is_solved(FacesOf(heap, objs[SolverCube]))
       THEN /\ solution' = <<>>
            /\ pc' = "done"
            /\ UNCHANGED <<engineVars, work, memVars>>
       ELSE /\ \E c \in {RubiksCube_copy(heap, objs[SolverCube])} :
                 /\ heap' = c.heap
                 /\ objs' = Append(objs, c.obj)
                 /\ prev' = FacesOf(heap, objs[SolverCube])
                 /\ cube' = FacesOf(c.heap, c.obj)
                 /\ work' = copy(FacesOf(heap, objs[SolverCube]))
            /\ acted' = WorkingCube
            /\ op' = "copy"
            /\ last' = <<>>
            /\ outcome' = Returned(cube')
            /\ pc' = Phases[1]
            /\ UNCHANGED <<ncalls, solution>>
  /\ UNCHANGED <<scramble, algorithm, attempt, inner, solution_moves, response, external, pending,
                 scramble_moves, last_face>>

\* the attempt loop of the running phase ends, on the working cube in memory
SolverPhaseOver ==
  /\ pc \in PhaseNames
  /\ pending = <<>>
  /\ inner = 0
  /\ attempt = max_attempts(pc) \/ phase_solved(pc, FacesOf(heap, objs[WorkingCube]))

\* a phase returns; after the last one CubeSolver.solve returns
\* " ".join(solution_moves)
SolverExit ==
  /\ SolverPhaseOver
  /\ LET k == CHOOSE i \in 1..Len(Phases) : Phases[i] = pc
     IN  IF k < Len(Phases)
           THEN pc' = Phases[k + 1] /\ UNCHANGED solution
           ELSE pc' = "done" /\ solution' = Join(solution_moves)
  /\ attempt' = 0
  /\ inner' = 0
  /\ UNCHANGED <<engineVars, scramble, algorithm, work, solution_moves, response, external, pending,
                 scramble_moves, last_face, memVars>>

\* one iteration of the running phase: the tokens are chosen from the working
\* cube in memory and left to be applied one at a time; work follows the same
\* iteration made by a solver running alone
SolverStep ==
  /\ pc \in PhaseNames
  /\ pending = <<>>
  /\ ~ SolverPhaseOver
  /\ \E st \in {phase_step(pc, [cube |-> FacesOf(heap, objs[WorkingCube]), moves |-> <<>>])} :
       /\ pending' = st.moves
       /\ solution_moves' = solution_moves \o st.moves
  /\ \E alone \in {phase_step(pc, [cube |-> work, moves |-> <<>>])} : work' = alone.cube
  /\ inner' = (inner + 1) % inner_steps(pc)
  /\ attempt' = IF inner' = 0 THEN attempt + 1 ELSE attempt
  /\ UNCHANGED <<engineVars, pc, scramble, algorithm, solution, response, external,
                 scramble_moves, last_face, memVars>>

NextConcurrent ==
  \/ \E move \in CallerMoves : MoveCube(CallerCube, move)
  \/ SolverMove
  \/ SolverBegin
  \/ SolverExit
  \/ SolverStep

SpecConcurrent == InitConcurrent /\ [][NextConcurrent]_vars

----------------------------------------------------------------------------
(* Properties of the engine, checked in every state reachable by legal     *)
(* moves.                                                                  *)

\* the cube after apply_move(move), for a call that returns
After(cb, move) == apply_move(cb, move).cube

QuarterTurns == {move \in MOVES : Len(move) = 1 \/ move[2] = "'"}

Cells == FaceNames \X Idx \X Idx

\* C1: for each of the 18 tokens m, applying m and then its syntactic inverse
\* to a reachable cube gives back every cell of that cube (m ranges over all
\* tokens, so this is also the inverse first and m second).
C1_InverseProperty ==
  \A move \in MOVES :
    /\ ~ apply_move(cube, move).raised
    /\ After(After(cube, move), InverseToken(move)) = cube

\* a move and then its inverse have been applied, and the cube is solved again
C1_Witness ==
  /\ ncalls = 2
  /\ ~ is_solved(prev)
  /\ prev = After(NewCube, InverseToken(last))
  /\ cube = NewCube

\* C2: for each of the 12 quarter-turn tokens, four applications in a row give
\* back every cell of a reachable cube.
C2_OrderFour ==
  \A move \in QuarterTurns :
    After(After(After(After(cube, move), move), move), move) = cube

\* a scrambled cube on which one, two and three turns of R each change the
\* cube, and the fourth restores it
C2_Witness ==
  /\ ncalls = 2
  /\ ~ is_solved(cube)
  /\ After(cube, <<"R">>) # cube
  /\ After(After(cube, <<"R">>), <<"R">>) # cube
  /\ After(After(After(cube, <<"R">>), <<"R">>), <<"R">>) # cube
  /\ After(After(After(After(cube, <<"R">>), <<"R">>), <<"R">>), <<"R">>) = cube

\* C3: each of the six colours is on exactly nine cells of a reachable cube.
C3_ColourCount ==
  \A colour \in 0..5 :
    Cardinality({x \in Cells : cube[x[1]][x[2]][x[3]] = colour}) = 9

\* a cube two moves from solved on which every face shows a foreign colour
C3_Witness ==
  /\ ncalls = 2
  /\ \A face \in FaceNames : ~ AllEqual(cube[face], FaceIndex(face))

\* C4: the centre cell of each face of a reachable cube carries the face's
\* home colour, and no move changes a centre.
C4_Centres ==
  /\ \A face \in FaceNames : cube[face][1][1] = FaceIndex(face)
  /\ \A face \in FaceNames : \A move \in MOVES :
       After(cube, move)[face][1][1] = cube[face][1][1]

\* two moves have been applied, the last one changed cells of the cube
C4_Witness ==
  /\ ncalls = 2
  /\ cube # prev
  /\ ~ is_solved(cube)

\* C5: is_solved is true exactly when every cell carries its face's home colour;
\* it is true of the new cube and false after any single move on it.
C5_SolvedCheck ==
  /\ is_solved(cube) <=> \A x \in Cells : cube[x[1]][x[2]][x[3]] = FaceIndex(x[1])
  /\ ncalls = 0 => is_solved(cube)
  /\ ncalls = 1 => ~ is_solved(cube)

\* a single move has been applied to the new cube and left the face it turns
\* uniform
C5_Witness ==
  /\ ncalls = 1
  /\ prev = NewCube
  /\ \E face \in FaceNames : last[1] = face /\ AllEqual(cube[face], FaceIndex(face))

\* C6: for each face X, X2 gives the cube that X twice gives and that X' twice
\* gives, and X2 twice gives back the cube.
C6_DoubleTurn ==
  \A face \in FaceNames :
    LET double == After(cube, <<face, "2">>)
    IN  /\ double = After(After(cube, <<face>>), <<face>>)
        /\ double = After(After(cube, <<face, "'">>), <<face, "'">>)
        /\ After(double, <<face, "2">>) = cube

\* a double turn has been applied to a scrambled cube and changed it
C6_Witness ==
  /\ ncalls = 2
  /\ Len(last) = 2 /\ last[2] = "2"
  /\ ~ is_solved(prev)
  /\ cube # prev

----------------------------------------------------------------------------
(* Properties of apply_moves and apply_move on typed text.                 *)

\* the positions of s where a whitespace-separated token starts
TokenStarts(s) ==
  {i \in 1..Len(s) : s[i] \notin Whitespace /\ (i = 1 \/ s[i - 1] \in Whitespace)}

\* the whitespace-separated tokens of s, left to right
Tokens(s) ==
  [k \in 1..Cardinality(TokenStarts(s)) |->
     WordAt(s, CHOOSE i \in TokenStarts(s) :
                 Cardinality({j \in TokenStarts(s) : j < i}) = k - 1)]

\* the cube after the first n of the tokens, applied one after the other
RECURSIVE AfterFirst(_, _, _)
AfterFirst(cb, tokens, n) ==
  IF n = 0 THEN cb ELSE After(AfterFirst(cb, tokens, n - 1), tokens[n])

\* msg is a message that ends with the token
Names(msg, token) ==
  /\ Len(msg) > Len(token)
  /\ SubSeq(msg, Len(msg) - Len(token) + 1, Len(msg)) = token

\* C7: apply_moves applies the whitespace-separated tokens left to right; at
\* the first token that is not one of the 18 it raises an error that names that
\* token and leaves the cube as the tokens before it made it; with no such
\* token it returns with all tokens applied.
C7_ApplyMoves ==
  op = "apply_moves" =>
    LET tokens == Tokens(last)
        bad == {k \in 1..Len(tokens) : tokens[k] \notin MOVES}
    IN  IF bad = {}
          THEN ~ outcome.raised /\ cube = AfterFirst(prev, tokens, Len(tokens))
          ELSE LET k == CHOOSE i \in bad : \A j \in bad : i <= j
               IN  /\ outcome.raised
                   /\ Names(outcome.msg, tokens[k])
                   /\ cube = AfterFirst(prev, tokens, k - 1)

\* apply_moves raised on a text with a legal token before the offending one
\* and a legal token after it, and the cube is the scrambled cube turned once
C7_Witness ==
  /\ op = "apply_moves"
  /\ last = <<"U", " ", "X", " ", "F">>
  /\ outcome.raised
  /\ ~ is_solved(prev)
  /\ cube = move_U(prev)

\* C8 as stated: apply_move returns for exactly the 18 tokens, and for any
\* other argument raises the error carrying the argument, the cube unchanged.
C8_AsStated ==
  op = "apply_move" =>
    /\ outcome.raised <=> last \notin MOVES
    /\ outcome.raised => Names(outcome.msg, last) /\ cube = prev

\* C8: apply_move strips the whitespace around its argument; it returns exactly
\* when the stripped argument is one of the 18 tokens (each of the 18 is
\* accepted); otherwise it raises the error, whose message ends with the
\* stripped argument, and leaves every cell as it was.
C8_ApplyMove ==
  /\ \A move \in MOVES : ~ apply_move(cube, move).raised
  /\ op = "apply_move" =>
       /\ outcome.raised <=> Strip(last) \notin MOVES
       /\ outcome.raised =>
            /\ Strip(last) = <<>> \/ Names(outcome.msg, Strip(last))
            /\ outcome.msg # <<>>
            /\ cube = prev
       /\ ~ outcome.raised => outcome.msg = <<>>

\* apply_move raised on a padded illegal argument and left the scrambled cube
\* as it was
C8_Witness ==
  /\ op = "apply_move"
  /\ last = <<" ", "X", " ">>
  /\ outcome.raised
  /\ ~ is_solved(cube)
  /\ cube = prev

----------------------------------------------------------------------------
(* Properties of the solve handler, checked in every state of a request.   *)

\* the scramble of the request is legal and leaves the cube solved
ScrambleKeepsSolved ==
  LET r == apply_moves(NewCube, Strip(scramble))
  IN  ~ r.raised /\ is_solved(r.cube)

\* C9 as stated: for every cube a legal scramble makes, the token string
\* CubeSolver.solve returns, applied with apply_moves to that scrambled cube,
\* yields a cube for which is_solved is true.  (When the layer-by-layer
\* request is done, cube is the scrambled cube with the returned string
\* applied to it by apply_moves.)
C9_SolveSolves ==
  (pc = "done" /\ Lower(algorithm) # "kociemba" /\ response.kind = "result") =>
    /\ op = "apply_moves"
    /\ last = solution
    /\ is_solved(cube)

Answered == pc = "done" /\ response.kind = "result"

\* the request took the layer-by-layer branch
Heuristic == Lower(algorithm) # "kociemba"

\* C11: the verified flag of a result is true exactly when the returned
\* solution, applied to the solved cube with the scramble applied, gives a cube
\* for which is_solved holds, on the layer-by-layer path and on the kociemba
\* path; and a layer-by-layer request with a legal scramble always ends with a
\* result (verified or not), never with an error.
C11_VerifiedFlag ==
  /\ Answered =>
       \E s \in {apply_moves(NewCube, Strip(scramble))} :
         \E r \in {apply_moves(s.cube, response.solution)} :
           /\ ~ s.raised
           /\ response.verified <=> (~ r.raised /\ is_solved(r.cube))
  /\ (pc = "done" /\ Heuristic /\ Strip(scramble) # <<>>
        /\ ~ apply_moves(NewCube, Strip(scramble)).raised) =>
       response.kind = "result"

\* a layer-by-layer request ended with a solution that does not solve the
\* scrambled cube and verified = false
C11_Witness ==
  /\ Answered
  /\ Heuristic
  /\ response.move_count > 0
  /\ ~ response.verified
  /\ ~ is_solved(cube)

\* the iteration bounds the phases are said to have
PhaseBound ==
  [cross |-> 50, corners |-> 50, middle |-> 100, yellow_cross |-> 20,
   yellow_corners |-> 50, pll |-> 50]

\* the phase after a phase; after the last one solve returns
PhaseAfter ==
  [cross |-> "corners", corners |-> "middle", middle |-> "yellow_cross",
   yellow_cross |-> "yellow_corners", yellow_corners |-> "pll", pll |-> "verify"]

\* the loop iterations and returns CubeSolver.solve can still make, counting
\* every phase from the k-th on at its full bound
RECURSIVE StepsFrom(_)
StepsFrom(k) ==
  IF k > Len(Phases) THEN 0
  ELSE PhaseBound[Phases[k]] * inner_steps(Phases[k]) + 1 + StepsFrom(k + 1)

\* an upper bound on the steps left before CubeSolver.solve has returned
StepsLeft ==
  IF pc = "solve" THEN 1 + StepsFrom(1)
  ELSE IF pc \in PhaseNames
    THEN LET k == CHOOSE i \in 1..Len(Phases) : Phases[i] = pc
         IN  (PhaseBound[pc] - attempt) * inner_steps(pc) - inner + 1 + StepsFrom(k + 1)
  ELSE 0

\* C12: CubeSolver.solve terminates and never raises: a phase never makes more
\* than its bound of attempts (cross 50, corners 50, middle layer 100, top
\* cross 20, top corners 50, permutation 50); at the bound it hands control to
\* the next phase whether or not its solved test holds; every token a phase
\* iteration applies is a legal one, so no apply_move raises; and every step
\* of a running solve lowers the number of steps left, which is never
\* negative, so solve returns after at most that many steps.
C12_Terminates ==
  /\ [](pc \in PhaseNames =>
         /\ attempt <= PhaseBound[pc]
         /\ max_attempts(pc) = PhaseBound[pc]
         /\ ~ PhaseOver =>
              \E st \in {phase_step(pc, [cube |-> work, moves |-> <<>>])} :
                /\ st.moves # <<>>
                /\ \A k \in 1..Len(st.moves) : st.moves[k] \in MOVES)
  /\ [][(pc \in PhaseNames /\ inner = 0 /\ attempt = PhaseBound[pc]) =>
          pc' = PhaseAfter[pc]]_vars
  /\ [][(pc = "solve" \/ pc \in PhaseNames) =>
          (pc' = "verify" \/ pc' \in PhaseNames) /\ 0 <= StepsLeft' /\ StepsLeft' < StepsLeft]_vars

\* the cross phase has made its fifty attempts without forming the cross, and
\* the corners phase has begun
C12_Witness ==
  /\ pc = "corners"
  /\ attempt = 0
  /\ ~ is_white_cross_solved(work)
  /\ Len(solution_moves) >= 4 * PhaseBound.cross

\* a step of solve stays in its phase or enters the next one
InPhaseOrder ==
  /\ (pc = "solve" /\ ~ is_solved(cube)) => pc' = Phases[1]
  /\ pc \in PhaseNames => (pc' = pc \/ pc' = PhaseAfter[pc])
  /\ pc' \in PhaseNames => (pc \in PhaseNames \/ pc = "solve")

\* a step of a phase appends to the moves the legal tokens it applies to the
\* working cube, in the order applied
AppendsWhatItApplies ==
  pc \in PhaseNames =>
    LET n == Len(solution_moves)
    IN  /\ n <= Len(solution_moves')
        /\ SubSeq(solution_moves', 1, n) = solution_moves
        /\ \E new \in {SubSeq(solution_moves', n + 1, Len(solution_moves'))} :
             /\ \A k \in 1..Len(new) : new[k] \in MOVES
             /\ \E r \in {apply_moves(work, Join(new))} :
                  ~ r.raised /\ work' = r.cube

\* C13: on an unsolved cube CubeSolver.solve runs cross, corners, middle
\* layer, top cross, top corners, permutation in that order, each once, never
\* going back; every loop iteration appends to the list of moves exactly the
\* tokens it applies to the working cube, in the order applied, all of them
\* legal; and the string returned is the join of that list, so that replaying
\* it on a copy of the input cube gives the working cube's final state.
C13_PhaseOrder ==
  /\ [][InPhaseOrder]_vars
  /\ [][AppendsWhatItApplies]_vars
  /\ []((pc = "verify" /\ ~ is_solved(cube)) =>
          /\ solution = Join(solution_moves)
          /\ Split(solution) = solution_moves
          /\ \E r \in {apply_moves(copy(cube), solution)} :
               ~ r.raised /\ r.cube = work)

\* solve has returned a long string for an unsolved cube, its working cube
\* differing from the input
C13_Witness ==
  /\ pc = "verify"
  /\ ~ is_solved(cube)
  /\ work # cube
  /\ Len(solution_moves) > PhaseBound.cross
  /\ solution = Join(solution_moves)

----------------------------------------------------------------------------
(* Properties of copies, checked over the arrays in memory.                *)

\* a step leaves the faces of every object but the one acted on as they were
OthersUntouched ==
  \A k \in 1..Len(objs) : k # acted' => FacesOf(heap', objs'[k]) = FacesOf(heap, objs[k])

\* C14: copy() returns a cube equal cell by cell to the original and leaves
\* the original as it was; afterwards a move applied to the copy leaves every
\* cell of the original unchanged and a move applied to the original leaves
\* every cell of the copy unchanged, also when faces of the original had been
\* turned before the copy was made; the cube moved changes as the move says.
C14_CopyIndependent ==
  /\ [](op = "copy" =>
          /\ cube = prev
          /\ FacesOf(heap, objs[acted]) = FacesOf(heap, objs[1])
          /\ \A f, g \in FaceNames : objs[acted][f].buf # objs[1][g].buf)
  /\ [][OthersUntouched]_vars
  /\ [](op = "apply_move" =>
          /\ cube = apply_move(prev, last).cube
          /\ cube = FacesOf(heap, objs[acted]))

\* a face of the original was turned, the copy was made, and a move on the
\* copy has made the two differ
C14_Witness ==
  /\ Len(objs) = 2
  /\ op = "apply_move"
  /\ acted = 2
  /\ \E face \in FaceNames : objs[1][face].rot # 0
  /\ ~ is_solved(FacesOf(heap, objs[1]))
  /\ FacesOf(heap, objs[1]) # FacesOf(heap, objs[2])

----------------------------------------------------------------------------
(* Properties of the validate handler.                                     *)

\* C15: validate answers valid = false, with a message that ends with the
\* offending token, when the text holds a token that is not one of the 18, and
\* valid = true when every token is legal or the text is empty or blank; it
\* works on a cube of its own, the caller's cube and everything else staying
\* as they were.
C15_Validate ==
  op = "validate" =>
    LET tokens == Tokens(last)
        bad == {k \in 1..Len(tokens) : tokens[k] \notin MOVES}
    IN  /\ response.kind = "validation"
        /\ response.valid <=> bad = {}
        /\ bad # {} =>
             /\ response.literal = "Invalid moves: "
             /\ Names(response.arg, tokens[CHOOSE i \in bad : \A j \in bad : i <= j])
        /\ (bad = {} /\ tokens # <<>>) => response.move_count = Len(tokens)
        /\ cube = prev
        /\ outcome = Returned(cube)
        /\ pc = "idle" /\ NoCubes

\* a caller whose cube is scrambled had a text with the token X between two
\* legal tokens refused
C15_Witness ==
  /\ op = "validate"
  /\ last = <<"U", " ", "X", " ", "F">>
  /\ ~ response.valid
  /\ response.arg = <<"I", "n", "v", "a", "l", "i", "d", " ", "m", "o", "v", "e", ":", " ", "X">>
  /\ ~ is_solved(cube)

----------------------------------------------------------------------------
(* Properties of the strings made from a cube.                             *)

\* the letter the claim gives for a colour
HomeLetter(colour) ==
  CASE colour = 0 -> "U" [] colour = 1 -> "D" [] colour = 2 -> "F"
    [] colour = 3 -> "B" [] colour = 4 -> "L" [] colour = 5 -> "R"

\* the place of a face among U, R, F, D, L, B, from 0
Place(face) ==
  CASE face = "U" -> 0 [] face = "R" -> 1 [] face = "F" -> 2
    [] face = "D" -> 3 [] face = "L" -> 4 [] face = "B" -> 5

Nine(letter) == [k \in 1..9 |-> letter]

\* C16: for every reachable cube cube_to_kociemba_string is 54 characters
\* long, the cell at row r and column c of a face stands at place
\* 9 * (place of the face among U, R, F, D, L, B) + 3 * r + c, as the home-face
\* letter of its colour; on the solved cube it is nine U, nine R, nine F,
\* nine D, nine L, nine B.
C16_KociembaString ==
  \E str \in {cube_to_kociemba_string(cube)} :
    /\ Len(str) = 54
    /\ \A cell \in Cells :
         str[9 * Place(cell[1]) + 3 * cell[2] + cell[3] + 1] = HomeLetter(cube[cell[1]][cell[2]][cell[3]])
    /\ is_solved(cube) =>
         str = Nine("U") \o Nine("R") \o Nine("F") \o Nine("D") \o Nine("L") \o Nine("B")

\* a cube two moves away from the solved one, whose string is not the solved
\* one's, has been encoded
C16_Witness ==
  /\ ncalls = 2
  /\ ~ is_solved(cube)
  /\ cube_to_kociemba_string(cube)[1] # "U"
  /\ cube_to_kociemba_string(NewCube)[10] = "R"

\* the colour whose home letter is the letter
ColourOf(letter) == CHOOSE colour \in 0..5 : HomeLetter(colour) = letter

\* the cube read back from a string of letters in the order U, R, F, D, L, B
Decode(str) ==
  [face \in FaceNames |-> [r \in Idx |-> [c \in Idx |->
     ColourOf(str[9 * Place(face) + 3 * r + c + 1])]]]

\* the cube read back from a string of digits in the order of cube.FACES
DecodeDigits(str) ==
  [face \in FaceNames |-> [r \in Idx |-> [c \in Idx |->
     CHOOSE colour \in 0..5 : Digit(colour) = str[9 * FaceIndex(face) + 3 * r + c + 1]]]]

\* reachable cubes to compare a cube with: the one before the last move, the
\* solved one, and those one move away from it or from the solved one
Others(cb) ==
  {prev, NewCube} \cup {After(cb, move) : move \in MOVES} \cup {After(NewCube, move) : move \in MOVES}

SameCells(a, b) == \A cell \in Cells : a[cell[1]][cell[2]][cell[3]] = b[cell[1]][cell[2]][cell[3]]

\* C17: the strings made from two reachable cubes are equal exactly when the
\* 54 cells of the cubes are equal, and reading a string back, letter to
\* colour and place to cell, gives the cube it was made from; so for
\* cube_to_kociemba_string, and for get_state_string with its digits.
C17_StringLosesNothing ==
  \E str \in {cube_to_kociemba_string(cube)} : \E digits \in {get_state_string(cube)} :
    /\ SameCells(Decode(str), cube)
    /\ SameCells(DecodeDigits(digits), cube)
    /\ \A other \in Others(cube) :
         /\ (str = cube_to_kociemba_string(other)) <=> SameCells(cube, other)
         /\ (digits = get_state_string(other)) <=> SameCells(cube, other)

\* a cube two moves away from the solved one differs from the cube before in
\* cells and in both strings, and is read back from its string
C17_Witness ==
  /\ ncalls = 2
  /\ ~ SameCells(cube, prev)
  /\ cube_to_kociemba_string(cube) # cube_to_kociemba_string(prev)
  /\ get_state_string(cube) # get_state_string(NewCube)
  /\ Decode(cube_to_kociemba_string(cube)) = cube

----------------------------------------------------------------------------
(* Properties of the kociemba branch when the library fails.               *)

\* C18: when kociemba.solve returns its sentinel or raises, the request is
\* answered with an error and no solution, kociemba.solve was called once and
\* CubeSolver.solve did not run; CubeSolver.solve runs only for a request
\* whose algorithm is not kociemba, and then kociemba.solve is not called.
C18_LibraryFailure ==
  /\ Len(external) <= 1
  /\ (pc = "done" /\ external # <<>> /\ external[1] \in {"sentinel", "raise"}) =>
       /\ response.kind = "error"
       /\ response.status = 400
       /\ response.literal = (IF external[1] = "sentinel"
                                THEN "Invalid cube state - cannot solve"
                                ELSE "Kociemba solver error: ")
       /\ "solution" \notin DOMAIN response
       /\ solution = <<>>
       /\ Lower(algorithm) = "kociemba"
       /\ solution_moves = <<>> /\ work = NewCube /\ attempt = 0
  /\ (pc \in PhaseNames \cup {"solve", "verify"} \/ solution_moves # <<>>) =>
       /\ Lower(algorithm) # "kociemba"
       /\ external = <<>>
  /\ (pc = "done" /\ Lower(algorithm) # "kociemba") => external = <<>>

\* the library raised for a scrambled cube and the request was answered with
\* the error
C18_Witness ==
  /\ pc = "done"
  /\ external = <<"raise">>
  /\ ~ is_solved(cube)
  /\ response.kind = "error"
  /\ algorithm = "Kociemba"

----------------------------------------------------------------------------
(* Properties of callers running at once.                                  *)

\* the cubes a caller alone has after n of the applying caller's moves
RECURSIVE AloneAfter(_)
AloneAfter(n) ==
  IF n = 0 THEN {NewCube}
  ELSE {After(cb, move) : cb \in AloneAfter(n - 1), move \in CallerMoves}

\* the solver chooses, from the working cube in memory, the tokens a solver
\* running alone chooses
ChoosesAsAlone ==
  (pc \in PhaseNames /\ pending = <<>> /\ pending' # <<>>) =>
    pending' = phase_step(pc, [cube |-> work, moves |-> <<>>]).moves

\* C19: with two callers at once, each on a cube of its own, under every
\* interleaving of their single moves: a step changes no cell of a cube other
\* than the one it acts on, and changes that one as the move does alone; the
\* applying caller's cube is one its moves alone lead to; the solving caller's
\* cube is its scramble applied to a new cube, the solver's working cube is at
\* every decision the one of a solver running alone, its tokens are those
\* chosen alone, and the solution returned, replayed alone on the scrambled
\* cube, gives the working cube.
C19_CallersIndependent ==
  /\ [][OthersUntouched]_vars
  /\ [](op = "apply_move" =>
          /\ cube = apply_move(prev, last).cube
          /\ cube = FacesOf(heap, objs[acted]))
  /\ [](FacesOf(heap, objs[CallerCube]) \in AloneAfter(ncalls))
  /\ []((pc # "scramble" /\ pending = <<>>) =>
          FacesOf(heap, objs[SolverCube]) = apply_moves(NewCube, scramble).cube)
  /\ []((pc \in PhaseNames /\ pending = <<>>) => FacesOf(heap, objs[WorkingCube]) = work)
  /\ [][ChoosesAsAlone]_vars
  /\ []((pc = "done" /\ Len(objs) = WorkingCube) =>
          \E r \in {apply_moves(apply_moves(NewCube, scramble).cube, solution)} :
            /\ ~ r.raised
            /\ r.cube = work
            /\ r.cube = FacesOf(heap, objs[WorkingCube]))
  /\ []((pc = "done" /\ Len(objs) < WorkingCube) => solution = <<>>)

\* the solver has returned a solution for the scrambled cube while the other
\* caller, between the solver's moves, turned its own cube twice
C19_Witness ==
  /\ pc = "done"
  /\ Len(objs) = WorkingCube
  /\ solution # <<>>
  /\ ncalls = 2
  /\ acted = CallerCube
  /\ ~ is_solved(FacesOf(heap, objs[CallerCube]))
  /\ FacesOf(heap, objs[CallerCube]) # FacesOf(heap, objs[SolverCube])

----------------------------------------------------------------------------
(* Properties of the scramble handler.                                     *)

\* C20: the scramble answered has exactly 20 tokens, each one of the 18 legal
\* tokens, and no two tokens next to each other turn the same face, whatever
\* moves were drawn; the same holds of the moves drawn so far while the loop
\* runs, and the loop never finds no move to draw.
C20_Scramble ==
  /\ Len(scramble_moves) <= 20
  /\ \A k \in 1..Len(scramble_moves) :
       /\ scramble_moves[k] \in MOVES
       /\ k > 1 => scramble_moves[k][1] # scramble_moves[k - 1][1]
  /\ pc = "generate" => available_moves(last_face) # <<>>
  /\ pc = "done" =>
       \E tokens \in {Tokens(response.scramble)} :
         /\ Len(tokens) = 20
         /\ \A k \in 1..20 : tokens[k] \in MOVES
         /\ \A k \in 1..19 : tokens[k][1] # tokens[k + 1][1]
         /\ ~ outcome.raised

\* a scramble was answered whose first two moves are a half turn of L and a
\* counter-clockwise turn of B
C20_Witness ==
  /\ pc = "done"
  /\ response.kind = "scramble"
  /\ SubSeq(response.scramble, 1, 5) = <<"L", "2", " ", "B", "'">>
  /\ ~ is_solved(response.cube_state)

----------------------------------------------------------------------------
(* Properties of the strips a turn moves.                                  *)

\* the three cells of row r of face x in cube a are, in the same column order,
\* on row r of face y in cube b
RowGoes(a, b, r, x, y) == \A c \in Idx : b[y][r][c] = a[x][r][c]

\* C21 as stated: U carries the top rows F->R->B->L->F and D the bottom rows
\* F->L->B->R->F.
C21_AsStated ==
  \E u \in {After(cube, Cw("U"))} : \E d \in {After(cube, Cw("D"))} :
    /\ RowGoes(cube, u, 0, "F", "R") /\ RowGoes(cube, u, 0, "R", "B")
    /\ RowGoes(cube, u, 0, "B", "L") /\ RowGoes(cube, u, 0, "L", "F")
    /\ RowGoes(cube, d, 2, "F", "L") /\ RowGoes(cube, d, 2, "L", "B")
    /\ RowGoes(cube, d, 2, "B", "R") /\ RowGoes(cube, d, 2, "R", "F")

\* C21: a clockwise U turn carries the cells of the top rows of the side faces
\* in the single cycle F->L->B->R->F, and a clockwise D turn carries the cells
\* of the bottom rows in the single cycle F->R->B->L->F, in the same column
\* order (X->Y: the cells on X's row before the turn are on Y's row after it).
C21_RowCycles ==
  \E u \in {After(cube, Cw("U"))} : \E d \in {After(cube, Cw("D"))} :
    /\ RowGoes(cube, u, 0, "F", "L") /\ RowGoes(cube, u, 0, "L", "B")
    /\ RowGoes(cube, u, 0, "B", "R") /\ RowGoes(cube, u, 0, "R", "F")
    /\ RowGoes(cube, d, 2, "F", "R") /\ RowGoes(cube, d, 2, "R", "B")
    /\ RowGoes(cube, d, 2, "B", "L") /\ RowGoes(cube, d, 2, "L", "F")

\* U was applied to a cube whose front top row was not of one colour, and the
\* row is now on L
C21_Witness ==
  /\ op = "apply_move"
  /\ last = Cw("U")
  /\ prev["F"][0][2] # prev["F"][0][0]
  /\ RowGoes(prev, cube, 0, "F", "L")
  /\ ~ RowGoes(prev, cube, 0, "F", "R")

\* the three cells of column cx of face x in cube a are on column cy of face y
\* in cube b, row i on row i, or on row 2 - i when reversed
ColGoes(a, b, x, cx, y, cy, reversed) ==
  \A i \in Idx : b[y][IF reversed THEN 2 - i ELSE i][cy] = a[x][i][cx]

\* C22 as stated: R carries the right columns U->F->D->B->U and L the left
\* columns U->B->D->F->U, the strip of B being its left column for R and its
\* right column for L, reversed.
C22_AsStated ==
  \E r \in {After(cube, Cw("R"))} : \E l \in {After(cube, Cw("L"))} :
    /\ ColGoes(cube, r, "U", 2, "F", 2, FALSE) /\ ColGoes(cube, r, "F", 2, "D", 2, FALSE)
    /\ ColGoes(cube, r, "D", 2, "B", 0, TRUE) /\ ColGoes(cube, r, "B", 0, "U", 2, TRUE)
    /\ ColGoes(cube, l, "U", 0, "B", 2, TRUE) /\ ColGoes(cube, l, "B", 2, "D", 0, TRUE)
    /\ ColGoes(cube, l, "D", 0, "F", 0, FALSE) /\ ColGoes(cube, l, "F", 0, "U", 0, FALSE)

\* C22: a clockwise R turn carries the cells of the right columns in the
\* single cycle U->B->D->F->U and a clockwise L turn carries the cells of the
\* left columns in the single cycle U->F->D->B->U (X->Y: the cells on X's strip
\* before the turn are on Y's strip after it); the strip of B is its left
\* column for R and its right column for L, and row i of U, F or D corresponds
\* to row 2 - i of B.
C22_ColumnCycles ==
  \E r \in {After(cube, Cw("R"))} : \E l \in {After(cube, Cw("L"))} :
    /\ ColGoes(cube, r, "U", 2, "B", 0, TRUE) /\ ColGoes(cube, r, "B", 0, "D", 2, TRUE)
    /\ ColGoes(cube, r, "D", 2, "F", 2, FALSE) /\ ColGoes(cube, r, "F", 2, "U", 2, FALSE)
    /\ ColGoes(cube, l, "U", 0, "F", 0, FALSE) /\ ColGoes(cube, l, "F", 0, "D", 0, FALSE)
    /\ ColGoes(cube, l, "D", 0, "B", 2, TRUE) /\ ColGoes(cube, l, "B", 2, "U", 0, TRUE)

\* L was applied to a cube whose upper left column was not of one colour,
\* and the column is now on F and not on B
C22_Witness ==
  /\ op = "apply_move"
  /\ last = Cw("L")
  /\ prev["U"][0][0] # prev["U"][2][0]
  /\ ColGoes(prev, cube, "U", 0, "F", 0, FALSE)
  /\ ~ ColGoes(prev, cube, "U", 0, "B", 2, TRUE)

\* the cells of a row and of a column, in the order of their index
RowOf(face, r) == [i \in Idx |-> <<face, r, i>>]

ColOf(face, c) == [i \in Idx |-> <<face, i, c>>]

At(cb, cell) == cb[cell[1]][cell[2]][cell[3]]

\* the cells of strip s in cube a are on strip t in cube b, the cell of index
\* i at index i, or at index 2 - i when reversed
StripGoes(a, b, s, t, reversed) ==
  \A i \in Idx : At(b, t[IF reversed THEN 2 - i ELSE i]) = At(a, s[i])

\* C23: a clockwise F turn carries the cells in the single cycle U bottom row
\* -> R left column -> D top row -> L right column -> U bottom row, and a
\* clockwise B turn in the single cycle U top row -> L left column -> D bottom
\* row -> R right column -> U top row (X->Y: the cells on X's strip before the
\* turn are on Y's strip after it); the transfer into D's row under F and the
\* transfer into R's column under B reverse the index order (as do L to U
\* under F and U to L under B, the other transfers keeping it).
C23_FrontBackCycles ==
  \E f \in {After(cube, Cw("F"))} : \E b \in {After(cube, Cw("B"))} :
    /\ StripGoes(cube, f, RowOf("U", 2), ColOf("R", 0), FALSE)
    /\ StripGoes(cube, f, ColOf("R", 0), RowOf("D", 0), TRUE)
    /\ StripGoes(cube, f, RowOf("D", 0), ColOf("L", 2), FALSE)
    /\ StripGoes(cube, f, ColOf("L", 2), RowOf("U", 2), TRUE)
    /\ StripGoes(cube, b, RowOf("U", 0), ColOf("L", 0), TRUE)
    /\ StripGoes(cube, b, ColOf("L", 0), RowOf("D", 2), FALSE)
    /\ StripGoes(cube, b, RowOf("D", 2), ColOf("R", 2), TRUE)
    /\ StripGoes(cube, b, ColOf("R", 2), RowOf("U", 0), FALSE)

\* B was applied to a cube whose lower row was not of one colour, and the row
\* is now on R's right column in reversed order and not in the same order
C23_Witness ==
  /\ op = "apply_move"
  /\ last = Cw("B")
  /\ prev["D"][2][0] # prev["D"][2][2]
  /\ StripGoes(prev, cube, RowOf("D", 2), ColOf("R", 2), TRUE)
  /\ ~ StripGoes(prev, cube, RowOf("D", 2), ColOf("R", 2), FALSE)

----------------------------------------------------------------------------
(* Properties of the iterations of the phases.                             *)

\* the cube gives the running phase's classifier no case with an algorithm of
\* its own
NoCase(phase, cb) ==
  LET up == cb["U"]
  IN  CASE phase = "cross" -> up[1][0] # 0 /\ up[0][1] # 0 /\ up[1][2] # 0 /\ up[2][1] # 0
        [] phase = "corners" -> up[0][0] # 0 /\ up[0][2] # 0 /\ up[2][0] # 0 /\ up[2][2] # 0
        [] phase = "middle" -> up[0][1] = 1 /\ up[1][0] = 1 /\ up[1][2] = 1 /\ up[2][1] = 1
        [] phase = "yellow_cross" -> get_yellow_cross_pattern(cb) \notin {"dot", "line", "L"}
        [] phase = "yellow_corners" ->
             get_yellow_corner_pattern(cb) \notin {"sune", "antisune", "pi", "h"}
        [] phase = "pll" -> are_corners_positioned(cb) /\ are_edges_positioned(cb)

\* the running phase is about to make an iteration
Iterating == pc \in PhaseNames /\ ~ PhaseOver

\* C24 as stated: in every phase an iteration that finds no case applies one
\* U turn and appends the single token U.
C24_AsStated ==
  (Iterating /\ NoCase(pc, work)) =>
    \E st \in {phase_step(pc, [cube |-> work, moves |-> <<>>])} : st.moves = <<Cw("U")>>

\* a cube and two cubes near it: after a D turn (the top layer as it was), and
\* after F2 B2 R2 L2 (the top and bottom edges and corners exchanged)
Probes(cb) ==
  {cb, move_D(cb),
   move_L(move_L(move_R(move_R(move_B(move_B(move_F(move_F(cb))))))))}

\* what an iteration of the phase on the cube does when there is no case
Fallback(phase, cb) ==
  \E st \in {phase_step(phase, [cube |-> cb, moves |-> <<>>])} :
    /\ phase # "yellow_corners"
    /\ phase # "yellow_cross" => st.moves = <<Cw("U")>> /\ st.cube = move_U(cb)
    /\ phase = "yellow_cross" =>
         /\ st.moves = <<Cw("F"), Cw("R"), Cw("U"), Ccw("R"), Ccw("U"), Ccw("F")>>
         /\ st.cube = move_F_prime(move_U_prime(move_R_prime(move_U(move_R(move_F(cb))))))

\* C24: an iteration that finds no case applies one U turn and appends the
\* single token U in the cross, corners, middle layer and permutation phases;
\* in the top cross phase it applies the algorithm of the line case,
\* F R U R' U' F'; in the top corners phase the classifier always gives a case.
\* This holds of every iteration the solver makes, and of the iteration of
\* any phase on the cube the solver is given and on the cubes near it.
C24_Fallback ==
  /\ (Iterating /\ NoCase(pc, work)) => Fallback(pc, work)
  /\ pc = "solve" =>
       \A phase \in PhaseNames : \A cb \in Probes(cube) :
         NoCase(phase, cb) => Fallback(phase, cb)

\* the top cross phase is about to make an iteration on a cube with one or
\* three yellow edges on top, for which there is no case
C24_Witness ==
  /\ Iterating
  /\ pc = "yellow_cross"
  /\ NoCase(pc, work)
  /\ ~ is_yellow_cross_formed(work)

\* the tokens a step appends to the list of moves
Appended == SubSeq(solution_moves', Len(solution_moves) + 1, Len(solution_moves'))

\* the algorithms the iterations of a phase choose from, as lists of tokens
AlgorithmsOf(phase) ==
  CASE phase = "cross" ->
         {<<Cw("L"), Cw("F"), Ccw("L")>>, <<Cw("F"), Cw("F")>>, <<Ccw("R"), Cw("F"), Cw("R")>>,
          <<Cw("U")>>}
    [] phase = "corners" -> {Split(white_corner_patterns.right_hand)}
    [] phase = "middle" ->
         {Split(middle_layer_patterns.right_insert), Split(middle_layer_patterns.left_insert)}
    [] phase = "yellow_cross" ->
         {Split(yellow_cross_patterns.dot), Split(yellow_cross_patterns.line),
          Split(yellow_cross_patterns.L_shape)}
    [] phase = "yellow_corners" ->
         {Split(yellow_corner_patterns.sune), Split(yellow_corner_patterns.antisune),
          Split(yellow_corner_patterns.pi)}
    [] phase = "pll" ->
         {Split(pll_patterns.adjacent_swap), Split(pll_patterns.clockwise_cycle)}

\* a step of a phase whose solved test holds where the loop makes it leaves
\* the phase, with the working cube and the list of moves as they were
ExitsWhenSolved ==
  (pc \in PhaseNames /\ inner = 0 /\ phase_solved(pc, work)) =>
    (pc' # pc /\ work' = work /\ solution_moves' = solution_moves)

\* a step that stays in its phase appends tokens to the list of moves, those
\* before them as they were
StepAppends ==
  (pc \in PhaseNames /\ pc' = pc) =>
    /\ Len(solution_moves') > Len(solution_moves)
    /\ SubSeq(solution_moves', 1, Len(solution_moves)) = solution_moves

\* a step that stays in its phase is made with the solved test false and
\* appends one algorithm of the phase or the single token U
OneAlgorithmPerTest ==
  (pc \in PhaseNames /\ pc' = pc) =>
    /\ ~ phase_solved(pc, work)
    /\ Appended \in AlgorithmsOf(pc) \cup {<<Cw("U")>>}

\* a step of the cross phase, one of the four rounds of an attempt, appends
\* the single token U, or an algorithm of the phase and then U; the first
\* round of an attempt is made with the solved test false, the other three
\* without the test
CrossRound ==
  (pc = "cross" /\ pc' = pc) =>
    /\ Appended \in {<<Cw("U")>>} \cup {alg \o <<Cw("U")>> : alg \in AlgorithmsOf("cross")}
    /\ inner = 0 => ~ phase_solved(pc, work)
    /\ inner' = (inner + 1) % 4

\* C25 as stated: in every phase a solved test that holds ends the phase with
\* nothing emitted, and every iteration is made after a solved test that
\* failed and applies one algorithm or the fallback.
C25_AsStated == [][ExitsWhenSolved /\ StepAppends /\ OneAlgorithmPerTest]_vars

\* C25: in every phase the solved test is made before each attempt: if it
\* holds the phase exits at once, emitting no token and leaving the working
\* cube as it was; otherwise, in the phases after the cross, the attempt
\* applies one algorithm or the fallback and appends exactly those tokens, and
\* the test is made again before anything else is applied. In the cross phase
\* an attempt is four rounds, each applying an algorithm, if a case matches,
\* and then U; the test is made before the first round only.
C25_TestBeforeAttempt ==
  /\ [][ExitsWhenSolved /\ StepAppends]_vars
  /\ [][pc # "cross" => OneAlgorithmPerTest]_vars
  /\ [][CrossRound]_vars
  /\ []((pc \in PhaseNames /\ inner # 0) => pc = "cross")

\* the cross phase is in the middle of an attempt whose last round matched a
\* case: the list of moves ends with an algorithm of the phase and then U
C25_Witness ==
  /\ pc = "cross"
  /\ inner # 0
  /\ ~ PhaseOver
  /\ \E alg \in AlgorithmsOf("cross") \ {<<Cw("U")>>} :
       /\ Len(solution_moves) > Len(alg)
       /\ SubSeq(solution_moves, Len(solution_moves) - Len(alg), Len(solution_moves))
            = alg \o <<Cw("U")>>

\* C26: on a solved cube every phase's completion predicate holds: the
\* white cross, the first layer, the middle layer, the yellow cross and the
\* yellow top face are all found complete, as is_solved is.
C26_SolvedCompletesPhases ==
  is_solved(cube) =>
    /\ is_white_cross_solved(cube)
    /\ is_first_layer_solved(cube)
    /\ is_middle_layer_solved(cube)
    /\ is_yellow_cross_formed(cube)
    /\ is_top_face_yellow(cube)

\* on a solved cube the middle-layer predicate and is_solved hold and the
\* other four completion predicates fail
C26_SolvedCubeVerdicts ==
  is_solved(cube) =>
    /\ ~ is_white_cross_solved(cube)
    /\ ~ is_first_layer_solved(cube)
    /\ is_middle_layer_solved(cube)
    /\ ~ is_yellow_cross_formed(cube)
    /\ ~ is_top_face_yellow(cube)

----------------------------------------------------------------------------
(* The detectors of solver.py called on a cube that legal moves made.      *)

DetectorNames ==
  {"_is_white_cross_solved", "_is_first_layer_solved", "_is_middle_layer_solved",
   "_is_yellow_cross_formed", "_is_top_face_yellow", "_are_corners_positioned",
   "_are_edges_positioned", "_get_yellow_cross_pattern", "_get_yellow_corner_pattern"}

\* what the detector of that name returns on the cube
Detector(name, cb) ==
  CASE name = "_is_white_cross_solved" -> is_white_cross_solved(cb)
    [] name = "_is_first_layer_solved" -> is_first_layer_solved(cb)
    [] name = "_is_middle_layer_solved" -> is_middle_layer_solved(cb)
    [] name = "_is_yellow_cross_formed" -> is_yellow_cross_formed(cb)
    [] name = "_is_top_face_yellow" -> is_top_face_yellow(cb)
    [] name = "_are_corners_positioned" -> are_corners_positioned(cb)
    [] name = "_are_edges_positioned" -> are_edges_positioned(cb)
    [] name = "_get_yellow_cross_pattern" -> get_yellow_cross_pattern(cb)
    [] name = "_get_yellow_corner_pattern" -> get_yellow_corner_pattern(cb)

\* one call of a detector: it reads cells of the cube and assigns none
CallDetector(name) ==
  /\ prev' = cube
  /\ last' = <<>>
  /\ op' = name
  /\ outcome' = [cube |-> cube, raised |-> FALSE, msg |-> <<>>, value |-> Detector(name, cube)]
  /\ UNCHANGED <<cube, ncalls, handlerVars, memVars>>

NextDetect ==
  \/ \E move \in MOVES : Move(move)
  \/ \E name \in DetectorNames : CallDetector(name)

SpecDetect == Init /\ [][NextDetect]_vars

\* the values a detector of that name returns
DetectorRange(name) ==
  IF name = "_get_yellow_cross_pattern" THEN {"dot", "line", "L", "cross"}
  ELSE IF name = "_get_yellow_corner_pattern" THEN {"sune", "antisune", "pi"}
  ELSE BOOLEAN

BuffersOf(obj) == {obj[face].buf : face \in FaceNames}

\* C28: from the entry of CubeSolver.solve to its return and after, all 54
\* cells of the cube it was called with are what they were at the entry (the
\* scramble applied to a new cube): the working cube is an object with
\* arrays of its own, and every token of every phase is applied to it.
C28_SolveKeepsCube ==
  (pc \in PhaseNames \cup {"done"}) =>
    /\ \E given \in {apply_moves(NewCube, scramble).cube} :
       \E kept \in {FacesOf(heap, objs[SolverCube])} :
         \A cell \in Cells : At(kept, cell) = At(given, cell)
    /\ Len(objs) = WorkingCube =>
         /\ BuffersOf(objs[WorkingCube]) \cap BuffersOf(objs[SolverCube]) = {}
         /\ (op = "apply_move" /\ acted # CallerCube) => acted = WorkingCube

\* CubeSolver.solve has returned a solution for a scrambled cube: its
\* working cube has been turned away from the cube it was called with
C28_Witness ==
  /\ pc = "done"
  /\ Len(objs) = WorkingCube
  /\ solution # <<>>
  /\ ~ is_solved(FacesOf(heap, objs[SolverCube]))
  /\ FacesOf(heap, objs[WorkingCube]) # FacesOf(heap, objs[SolverCube])

----------------------------------------------------------------------------
(* The pieces of the cube.                                                 *)

\* the eight corner positions, each as its three cells
CornerPositions ==
  {<<<<"U", 2, 2>>, <<"F", 0, 2>>, <<"R", 0, 0>>>>,
   <<<<"U", 2, 0>>, <<"F", 0, 0>>, <<"L", 0, 2>>>>,
   <<<<"U", 0, 0>>, <<"L", 0, 0>>, <<"B", 0, 2>>>>,
   <<<<"U", 0, 2>>, <<"B", 0, 0>>, <<"R", 0, 2>>>>,
   <<<<"D", 0, 2>>, <<"F", 2, 2>>, <<"R", 2, 0>>>>,
   <<<<"D", 0, 0>>, <<"L", 2, 2>>, <<"F", 2, 0>>>>,
   <<<<"D", 2, 0>>, <<"B", 2, 2>>, <<"L", 2, 0>>>>,
   <<<<"D", 2, 2>>, <<"R", 2, 2>>, <<"B", 2, 0>>>>}

\* the twelve edge positions, each as its two cells
EdgePositions ==
  {<<<<"U", 2, 1>>, <<"F", 0, 1>>>>, <<<<"U", 1, 2>>, <<"R", 0, 1>>>>,
   <<<<"U", 0, 1>>, <<"B", 0, 1>>>>, <<<<"U", 1, 0>>, <<"L", 0, 1>>>>,
   <<<<"D", 0, 1>>, <<"F", 2, 1>>>>, <<<<"D", 1, 2>>, <<"R", 2, 1>>>>,
   <<<<"D", 2, 1>>, <<"B", 2, 1>>>>, <<<<"D", 1, 0>>, <<"L", 2, 1>>>>,
   <<<<"F", 1, 2>>, <<"R", 1, 0>>>>, <<<<"F", 1, 0>>, <<"L", 1, 2>>>>,
   <<<<"B", 1, 0>>, <<"R", 1, 2>>>>, <<<<"B", 1, 2>>, <<"L", 1, 0>>>>}

\* the colours of two opposite faces: U and D, F and B, L and R
Opposite(a, b) ==
  \E pair \in {<<"U", "D">>, <<"F", "B">>, <<"L", "R">>} :
    {a, b} = {FaceIndex(pair[1]), FaceIndex(pair[2])}

\* the set of colours a position carries
ColoursAt(cb, pos) == {At(cb, pos[k]) : k \in DOMAIN pos}

\* the cells of a position carry pairwise different, pairwise non-opposite
\* colours
ProperPiece(cb, pos) ==
  \A j, k \in DOMAIN pos :
    j # k => (At(cb, pos[j]) # At(cb, pos[k]) /\ ~ Opposite(At(cb, pos[j]), At(cb, pos[k])))

PhysicallyConsistent(cb) ==
  /\ \A pos \in CornerPositions \cup EdgePositions : ProperPiece(cb, pos)
  /\ \A p, q \in CornerPositions : p # q => ColoursAt(cb, p) # ColoursAt(cb, q)
  /\ \A p, q \in EdgePositions : p # q => ColoursAt(cb, p) # ColoursAt(cb, q)

\* C29: in every state legal moves lead to, each of the eight corner
\* positions carries three pairwise different, pairwise non-opposite colours,
\* each of the twelve edge positions two different non-opposite colours, and
\* no set of colours occurs at two positions.
C29_PhysicallyConsistent == PhysicallyConsistent(cube)

\* two moves, the second a front turn, have taken the pieces of the corner
\* between U, F and L and of the edge between U and F away from their places
C29_Witness ==
  /\ ncalls = 2
  /\ last = Cw("F")
  /\ op = "apply_move"
  /\ cube # After(prev, Ccw("F"))
  /\ ColoursAt(cube, <<<<"U", 2, 0>>, <<"F", 0, 0>>, <<"L", 0, 2>>>>)
       # ColoursAt(NewCube, <<<<"U", 2, 0>>, <<"F", 0, 0>>, <<"L", 0, 2>>>>)
  /\ ColoursAt(cube, <<<<"U", 2, 1>>, <<"F", 0, 1>>>>)
       # ColoursAt(prev, <<<<"U", 2, 1>>, <<"F", 0, 1>>>>)

\* the working cube of the solver and the cube of the request are
\* physically consistent all along a solve
WorkConsistent == PhysicallyConsistent(work) /\ PhysicallyConsistent(cube)

----------------------------------------------------------------------------
(* The phases that cannot finish.                                          *)

\* the centres of D and U carry the colours 1 and 0, and neither the
\* first-layer test nor the top-face test holds
CentresDefeatTests(cb) ==
  /\ cb["D"][1][1] = 1
  /\ cb["U"][1][1] = 0
  /\ ~ is_first_layer_solved(cb)
  /\ ~ is_top_face_yellow(cb)

\* the corners phase and the top-corner phase are left after 50 attempts only
LeftAtTheBound ==
  (pc \in {"corners", "yellow_corners"} /\ pc' # pc) => (attempt = 50 /\ inner = 0)

\* C30: on every cube legal moves lead to, the cube of the request and the
\* working cube of the solver all along a solve, the centres of D and U are 1
\* and 0, so the first-layer test (all of D is 0) and the top-face test (all
\* of U is 1) are false; hence for every unsolved input the corners phase and
\* the top-corner phase each run their 50 attempts, and the solution has at
\* least 400 tokens.
C30_PhasesRunOut ==
  /\ [](CentresDefeatTests(cube) /\ CentresDefeatTests(work))
  /\ [][LeftAtTheBound]_vars
  /\ []((pc = "verify" /\ ~ is_solved(cube)) => Len(solution_moves) >= 400)
  /\ []((pc = "done" /\ response.kind = "result" /\ solution_moves # <<>>) =>
          response.move_count >= 400)

\* the solver has returned for an unsolved cube, after both phases ran out
C30_Witness ==
  /\ pc = "verify"
  /\ ~ is_solved(cube)
  /\ algorithm = "layer"
  /\ Len(solution_moves) >= 400
  /\ ~ is_first_layer_solved(work)
  /\ ~ is_top_face_yellow(work)

----------------------------------------------------------------------------
(* The cells a quarter turn may change.                                    *)

\* the cells of the four strips next to a face
StripCells(face) ==
  LET Row(f, r) == {<<f, r, i>> : i \in Idx}
      Col(f, c) == {<<f, i, c>> : i \in Idx}
  IN  CASE face = "U" -> Row("F", 0) \cup Row("R", 0) \cup Row("B", 0) \cup Row("L", 0)
        [] face = "D" -> Row("F", 2) \cup Row("R", 2) \cup Row("B", 2) \cup Row("L", 2)
        [] face = "R" -> Col("U", 2) \cup Col("F", 2) \cup Col("D", 2) \cup Col("B", 0)
        [] face = "L" -> Col("U", 0) \cup Col("F", 0) \cup Col("D", 0) \cup Col("B", 2)
        [] face = "F" -> Row("U", 2) \cup Col("R", 0) \cup Row("D", 0) \cup Col("L", 2)
        [] face = "B" -> Row("U", 0) \cup Col("L", 0) \cup Row("D", 2) \cup Col("R", 2)

\* the eight cells of a face around its centre
RingCells(face) == {<<face, r, c>> : r \in Idx, c \in Idx} \ {<<face, 1, 1>>}

OppositeFace(face) ==
  CASE face = "U" -> "D" [] face = "D" -> "U" [] face = "F" -> "B"
    [] face = "B" -> "F" [] face = "L" -> "R" [] face = "R" -> "L"

\* the cells in which two cubes differ
Changed(a, b) == {cell \in Cells : At(a, cell) # At(b, cell)}

\* the cells a quarter turn of each face may change
Turned == [face \in FaceNames |-> RingCells(face) \cup StripCells(face)]

\* the cells a quarter turn of each face leaves alone
Frame == [face \in FaceNames |-> Cells \ Turned[face]]

\* for each face the cells a quarter turn may change are 20; the 34 others
\* hold the face opposite to it and the six centres
TwentyCells ==
  \A face \in FaceNames :
    /\ Cardinality(Turned[face]) = 20
    /\ Cardinality(Frame[face]) = 34
    /\ \A r \in Idx : \A c \in Idx : <<OppositeFace(face), r, c>> \in Frame[face]
    /\ \A f \in FaceNames : <<f, 1, 1>> \in Frame[face]

\* C31: a quarter turn of face X, either way, changes no cell other than
\* the 8 cells of X around its centre and the 12 cells of the four strips next
\* to X, at most 20 cells; the other 34, the whole face opposite to X and all
\* six centres among them, are what they were. On X the cell at (row r,
\* column c) is at (c, 2 - r) after a clockwise turn, and the cell at
\* (c, 2 - r) is at (r, c) after a counterclockwise one.
C31_FrameOfQuarterTurn ==
  /\ TwentyCells
  /\ \A face \in FaceNames :
       /\ \E cw \in {After(cube, Cw(face))} :
            /\ \A cell \in Frame[face] : At(cw, cell) = At(cube, cell)
            /\ Cardinality(Changed(cube, cw)) <= 20
            /\ \A r \in Idx : \A c \in Idx : cw[face][c][2 - r] = cube[face][r][c]
       /\ \E ccw \in {After(cube, Ccw(face))} :
            /\ \A cell \in Frame[face] : At(ccw, cell) = At(cube, cell)
            /\ Cardinality(Changed(cube, ccw)) <= 20
            /\ \A r \in Idx : \A c \in Idx : ccw[face][r][c] = cube[face][c][2 - r]

\* a clockwise R turn of a cube that a U turn had made has changed cells of
\* the R face and cells of the strips, and none else
C31_Witness ==
  /\ op = "apply_move"
  /\ last = Cw("R")
  /\ ncalls = 2
  /\ prev["R"][0][0] # prev["R"][2][0]
  /\ cube["R"][0][2] = prev["R"][0][0]
  /\ Changed(prev, cube) \cap RingCells("R") # {}
  /\ Changed(prev, cube) \cap StripCells("R") # {}
  /\ Cardinality(Changed(prev, cube)) > 12
  /\ Changed(prev, cube) \subseteq Turned["R"]

====
